---- MODULE Spec2Model ----
(***************************************************************************)
(* Document Extraction & Normalization Engine (mcp-server).                *)
(*                                                                         *)
(* The module models                                                       *)
(*   - config.ProcessorConfig            (cloud eligibility policy),       *)
(*   - document_processor.DocumentProcessor (the Processor Selector),      *)
(*   - processors.TextractProcessor / processors.LocalProcessor as the     *)
(*     two backends the selector awaits,                                   *)
(*   - docling_processor.DocumentProcessor (the processor main.py uses).   *)
(*                                                                         *)
(* Strings are TLA+ strings; a text that the code splits into words is     *)
(* carried as a sequence of words and joined where the code joins it.      *)
(* Timestamps (processedAt) are left out of the Document records.          *)
(***************************************************************************)
EXTENDS Integers, Sequences, FiniteSets, TLC

VARIABLES
    config,              \* self.config of document_processor.DocumentProcessor
    textract_processor,  \* self.textract_processor is not None
    local_processor,     \* self.local_processor is not None
    converter,           \* self.converter of docling_processor.DocumentProcessor is not None
    pc,                  \* position of the process_document call in flight
    module,              \* which module's process_document the call belongs to
    file_path,           \* argument of the call
    file_type,           \* argument of the call
    file_size,           \* local file_size of process_document (None before it is read)
    use_textract,        \* local use_textract of process_document
    trace,               \* backend invocations of the current call, in order
    result,              \* the Document the call returned (None while there is none)
    raised,              \* the exception that escaped the call (None if none did)
    backend_call,        \* one backend operation run on its own: its inputs and what it left behind
    tasks                \* the process_document coroutines running concurrently on one selector

vars == <<config, textract_processor, local_processor, converter, pc, module,
          file_path, file_type, file_size, use_textract, trace, result, raised,
          backend_call, tasks>>

\* what a selector call leaves alone
others == <<backend_call, tasks>>

\* Python's None, for a value that is otherwise an object, a list, a string
\* or a number
None == [none |-> TRUE]
NoneStr == "None"
NoneInt == -1

----------------------------------------------------------------------------
(* Bounds of the model *)

\* number of pages of the sample documents the backends extract
MaxPages == 2

----------------------------------------------------------------------------
(* Text helpers *)

RECURSIVE JoinStr(_, _)
\* sep.join(parts)
JoinStr(parts, sep) ==
    IF parts = <<>> THEN ""
    ELSE IF Len(parts) = 1 THEN parts[1]
    ELSE parts[1] \o sep \o JoinStr(Tail(parts), sep)

RECURSIVE SumLen(_)
\* total number of words of a sequence of word sequences
SumLen(lines) ==
    IF lines = <<>> THEN 0 ELSE Len(lines[1]) + SumLen(Tail(lines))

\* the sequences over S of length at most n
SeqsUpTo(S, n) == UNION { [1..k -> S] : k \in 0..n }

\* str(n) for the page numbers of the model
NumStr(n) ==
    CASE n = 0 -> "0" [] n = 1 -> "1" [] n = 2 -> "2" [] n = 3 -> "3"
      [] n = 4 -> "4" [] n = 5 -> "5" [] n = 6 -> "6" [] n = 7 -> "7"
      [] n = 8 -> "8" [] OTHER -> "9"

----------------------------------------------------------------------------
(* config.ProcessorConfig *)

BytesPerMB == 1024 * 1024

\* default of TEXTRACT_MAX_FILE_SIZE_MB
TEXTRACT_MAX_FILE_SIZE_MB == 10

\* default of TEXTRACT_MAX_PAGES
TEXTRACT_MAX_PAGES == 100

\* the configurations a ProcessorConfig can hold (read from the environment)
ProcessorConfig ==
    [AWS_TEXTRACT_ENABLED : BOOLEAN,
     USE_LOCAL_FALLBACK : BOOLEAN,
     TEXTRACT_API_MODE : {"analyze", "detect"},
     TEXTRACT_MAX_FILE_SIZE_MB : {1, TEXTRACT_MAX_FILE_SIZE_MB},
     TEXTRACT_MAX_PAGES : {TEXTRACT_MAX_PAGES},
     ENABLE_PDFPLUMBER : BOOLEAN]

\* validate_aws_config: False when disabled, otherwise boto3 resolves credentials
validate_aws_config(cls) ==
    IF ~cls.AWS_TEXTRACT_ENABLED THEN FALSE ELSE TRUE

\* a plausible slip: the size limit compared with >= (a file of exactly the
\* maximum is refused)
should_use_textract_ge(cls, file_size_bytes, page_count) ==
    /\ cls.AWS_TEXTRACT_ENABLED
    /\ validate_aws_config(cls)
    /\ ~(file_size_bytes >= cls.TEXTRACT_MAX_FILE_SIZE_MB * BytesPerMB)
    /\ ~(page_count # NoneInt /\ page_count # 0 /\ page_count > cls.TEXTRACT_MAX_PAGES)

\* a plausible slip: the size limit is not checked at all
should_use_textract_nosize(cls, file_size_bytes, page_count) ==
    /\ cls.AWS_TEXTRACT_ENABLED
    /\ validate_aws_config(cls)
    /\ ~(page_count # NoneInt /\ page_count # 0 /\ page_count > cls.TEXTRACT_MAX_PAGES)

\* should_use_textract(file_size_bytes, page_count=None).
\* file_size_mb = file_size_bytes / (1024 * 1024) is a float division by a
\* power of two, so file_size_mb > MAX is file_size_bytes > MAX * 1024 * 1024.
should_use_textract(cls, file_size_bytes, page_count) ==
    IF ~cls.AWS_TEXTRACT_ENABLED THEN FALSE
    ELSE IF ~validate_aws_config(cls) THEN FALSE
    ELSE IF file_size_bytes > cls.TEXTRACT_MAX_FILE_SIZE_MB * BytesPerMB THEN FALSE
    ELSE IF page_count # NoneInt /\ page_count # 0 /\ page_count > cls.TEXTRACT_MAX_PAGES
         THEN FALSE
    ELSE TRUE

----------------------------------------------------------------------------
(* Inputs *)

\* file paths: os.path.basename(p) is p.base, Path(p).suffix.lower() is p.suffix
FilePaths ==
    { [dir |-> "/tmp/", base |-> "report.pdf", suffix |-> ".pdf"],
      [dir |-> "/tmp/", base |-> "notes.txt", suffix |-> ".txt"] }

basename(p) == p.base

FileTypes == {"application/pdf", "text/plain"}

\* what os.path.getsize can answer for a path: an empty file, a size at and
\* just over the configured limit, a 50 MB file, or OSError (the path cannot
\* be read)
OSError == "[Errno 2] No such file or directory"

FileSizes(cls) ==
    { 0,
      cls.TEXTRACT_MAX_FILE_SIZE_MB * BytesPerMB,
      cls.TEXTRACT_MAX_FILE_SIZE_MB * BytesPerMB + 1,
      50 * BytesPerMB }

GetSizeResults(cls) ==
    { [ok |-> TRUE, size |-> n] : n \in FileSizes(cls) } \cup { [ok |-> FALSE, size |-> NoneInt] }

\* page counts should_use_textract can be asked about
PageCounts == {NoneInt, 0, 1, TEXTRACT_MAX_PAGES, TEXTRACT_MAX_PAGES + 1}

----------------------------------------------------------------------------
(* Document records *)

\* document_processor.DocumentProcessor._create_error_document
_create_error_document(fp, error) ==
    LET error_msg == "Error processing document: " \o error IN
    [success |-> FALSE,
     processor |-> "error",
     fileName |-> basename(fp),
     content |-> error_msg,
     type |-> "error",
     metadata |-> [wordCount |-> 0, characterCount |-> Len(error_msg)],
     tables |-> <<>>,
     layout |-> [hasMultipleColumns |-> FALSE, pageCount |-> 0, sections |-> <<>>],
     chunks |-> << [id |-> "error-chunk",
                    content |-> error_msg,
                    startIndex |-> 0,
                    endIndex |-> Len(error_msg),
                    type |-> "error",
                    metadata |-> <<>>] >>,
     error |-> error]

\* docling_processor.DocumentProcessor._create_error_document
docling_create_error_document(fp, error) ==
    LET error_msg == "Error processing document: " \o error IN
    [success |-> FALSE,
     processor |-> "error",
     fileName |-> basename(fp),
     content |-> error_msg,
     type |-> "error",
     metadata |-> [wordCount |-> 0, characterCount |-> Len(error_msg)],
     tables |-> <<>>,
     layout |-> [hasMultipleColumns |-> FALSE, pageCount |-> 0, sections |-> <<>>],
     chunks |-> << [id |-> "error-chunk",
                    content |-> error_msg,
                    startIndex |-> 0,
                    endIndex |-> Len(error_msg),
                    type |-> "paragraph",
                    metadata |-> <<>>] >>,
     error |-> error]

\* the outcome of a backend call: a returned Document or a raised exception,
\* of which the selector only uses str(e)
Returned(doc) == [kind |-> "return", doc |-> doc]
Raised(msg) == [kind |-> "raise", msg |-> msg]

\* _table_to_markdown(headers, rows), the same code in the three processors
_table_to_markdown(headers, rows) ==
    IF headers = <<>> THEN ""
    ELSE LET n == Len(headers)
             padded_row(row) == row \o [i \in 1..(IF n > Len(row) THEN n - Len(row) ELSE 0) |-> ""]
             line(cells) == "| " \o JoinStr(cells, " | ") \o " |"
             md_lines == << line(headers), line([i \in 1..n |-> "---"]) >>
                         \o [r \in 1..Len(rows) |-> line(SubSeq(padded_row(rows[r]), 1, n))]
         IN JoinStr(md_lines, "\n")

----------------------------------------------------------------------------
(* processors.textract_processor.TextractProcessor *)

\* _is_supported_format: by declared MIME type, else by file extension
_is_supported_format(fp, ft) ==
    \/ ft \in {"application/pdf", "image/png", "image/jpeg", "image/jpg", "image/tiff"}
    \/ fp.suffix \in {".pdf", ".png", ".jpg", ".jpeg", ".tiff", ".tif"}

\* a LINE block; Text is carried as its words
LineBlock(id, page, words) ==
    [Id |-> id, BlockType |-> "LINE", Page |-> page, Text |-> words]

\* the Blocks of a response with one LINE per page, for n pages
ResponseOfPages(n) == [i \in 1..n |-> LineBlock(NumStr(i), i, <<"Revenue", NumStr(i)>>)]

\* the responses the Textract API answers with in the model
TextractResponses == { ResponseOfPages(n) : n \in 0..MaxPages }

\* block.get('Text', '').strip() of a LINE block
BlockText(block) == JoinStr(block.Text, " ")

\* a plausible slip: the lines collected last block first
_extract_text_from_blocks_reversed(blocks) ==
    LET lines == SelectSeq(blocks, LAMBDA b : b.BlockType = "LINE" /\ BlockText(b) # "")
    IN JoinStr([i \in 1..Len(lines) |-> BlockText(lines[Len(lines) + 1 - i])], "\n")

\* _extract_text_from_blocks: non-empty LINE texts, in the order returned
_extract_text_from_blocks(blocks) ==
    LET lines == SelectSeq(blocks, LAMBDA b : b.BlockType = "LINE" /\ BlockText(b) # "")
    IN JoinStr([i \in 1..Len(lines) |-> BlockText(lines[i])], "\n")

\* the maximum Page over all blocks, 0 if there is none
MaxPageOf(blocks) ==
    IF blocks = <<>> THEN 0
    ELSE CHOOSE m \in { blocks[i].Page : i \in 1..Len(blocks) } :
            \A i \in 1..Len(blocks) : blocks[i].Page <= m

RECURSIVE StripLeft(_)
\* the lines of a text without its leading blank lines
StripLeft(lines) ==
    IF lines = <<>> \/ Head(lines) # "" THEN lines ELSE StripLeft(Tail(lines))

RECURSIVE StripRight(_)
\* the lines of a text without its trailing blank lines
StripRight(lines) ==
    IF lines = <<>> \/ lines[Len(lines)] # "" THEN lines
    ELSE StripRight(SubSeq(lines, 1, Len(lines) - 1))

RECURSIVE PageChunks(_, _, _, _)
\* the loop of _create_chunks_from_blocks over sorted(pages.keys()) from page p
\* on; page_text.strip() drops the blank lines at both ends
PageChunks(blocks, p, last, chunk_id) ==
    IF p > last THEN <<>>
    ELSE LET lines == SelectSeq(blocks, LAMBDA b : b.BlockType = "LINE" /\ b.Page = p)
             texts == [i \in 1..Len(lines) |-> BlockText(lines[i])]
             page_text == JoinStr(texts, "\n")
             stripped == JoinStr(StripRight(StripLeft(texts)), "\n")
         IN IF lines # <<>> /\ stripped # ""
            THEN << [id |-> "chunk-" \o NumStr(chunk_id),
                     content |-> stripped,
                     startIndex |-> 0,
                     endIndex |-> Len(page_text),
                     type |-> "page",
                     metadata |-> [pageNumber |-> p, source |-> "textract"]] >>
                 \o PageChunks(blocks, p + 1, last, chunk_id + 1)
            ELSE PageChunks(blocks, p + 1, last, chunk_id)

\* a plausible slip: chunk_id initialised to 1
_create_chunks_from_blocks_from_one(blocks) == PageChunks(blocks, 1, MaxPageOf(blocks), 1)

\* _create_chunks_from_blocks
_create_chunks_from_blocks(blocks) == PageChunks(blocks, 1, MaxPageOf(blocks), 0)

\* block_map.get(id): the block with that Id (the last one, as in a dict built
\* from the list), None if there is none
BlockOf(blocks, id) ==
    LET at == { i \in 1..Len(blocks) : blocks[i].Id = id }
    IN IF at = {} THEN None
       ELSE blocks[CHOOSE i \in at : \A k \in at : k <= i]

RECURSIVE FlattenIds(_)
\* the Ids of a list of relationships, one list after the other
FlattenIds(rels) ==
    IF rels = <<>> THEN <<>> ELSE Head(rels).Ids \o FlattenIds(Tail(rels))

\* block.get('Relationships', [])
RelationshipsOf(block) ==
    IF "Relationships" \in DOMAIN block THEN block.Relationships ELSE <<>>

\* _get_cell_text: the non-empty Text of the WORD children of every CHILD
\* relationship, joined by blanks
_get_cell_text(cell_block, blocks) ==
    LET child_ids == FlattenIds(SelectSeq(RelationshipsOf(cell_block),
                                          LAMBDA rel : rel.Type = "CHILD"))
        words == SelectSeq(child_ids,
                     LAMBDA id : LET child_block == BlockOf(blocks, id)
                                 IN /\ child_block # None
                                    /\ child_block.BlockType = "WORD"
                                    /\ child_block.Text # "")
    IN JoinStr([k \in 1..Len(words) |-> BlockOf(blocks, words[k]).Text], " ")

\* the largest element of a non-empty set of integers
Max(S) == CHOOSE m \in S : \A x \in S : x <= m

\* a plausible slip: the cells laid out in the order they arrive, row after
\* row, instead of by their indices
_parse_table_block_arrival(table_block, blocks) ==
    LET children == SelectSeq(RelationshipsOf(table_block), LAMBDA rel : rel.Type = "CHILD")
        cell_ids == IF children = <<>> THEN <<>> ELSE children[1].Ids
        cells == SelectSeq(cell_ids,
                     LAMBDA id : LET cell_block == BlockOf(blocks, id)
                                 IN cell_block # None /\ cell_block.BlockType = "CELL")
    IN IF cell_ids = <<>> \/ cells = <<>> THEN None
       ELSE LET max_row == Max({ BlockOf(blocks, cells[k]).RowIndex - 1 : k \in 1..Len(cells) })
                max_col == Max({ BlockOf(blocks, cells[k]).ColumnIndex - 1 : k \in 1..Len(cells) })
                nth(r, c) == (r - 1) * (max_col + 1) + c
                table_grid == [r \in 1..(max_row + 1) |->
                                 [c \in 1..(max_col + 1) |->
                                    IF nth(r, c) <= Len(cells)
                                    THEN _get_cell_text(BlockOf(blocks, cells[nth(r, c)]), blocks)
                                    ELSE ""]]
            IN [headers |-> table_grid[1], rows |-> Tail(table_grid)]

\* a plausible slip: the grid sized by the number of cells found instead of by
\* the largest indices
_parse_table_block_dense(table_block, blocks) ==
    LET children == SelectSeq(RelationshipsOf(table_block), LAMBDA rel : rel.Type = "CHILD")
        cell_ids == IF children = <<>> THEN <<>> ELSE children[1].Ids
        cells == SelectSeq(cell_ids,
                     LAMBDA id : LET cell_block == BlockOf(blocks, id)
                                 IN cell_block # None /\ cell_block.BlockType = "CELL")
        text_at(r, c) ==
            LET at == { k \in 1..Len(cells) :
                          LET b == BlockOf(blocks, cells[k])
                          IN b.RowIndex - 1 = r /\ b.ColumnIndex - 1 = c }
            IN IF at = {} THEN "" ELSE _get_cell_text(BlockOf(blocks, cells[Max(at)]), blocks)
    IN IF cell_ids = <<>> \/ cells = <<>> THEN None
       ELSE LET n_rows == Cardinality({ BlockOf(blocks, cells[k]).RowIndex : k \in 1..Len(cells) })
                n_cols == Cardinality({ BlockOf(blocks, cells[k]).ColumnIndex : k \in 1..Len(cells) })
                table_grid == [r \in 1..n_rows |-> [c \in 1..n_cols |-> text_at(r - 1, c - 1)]]
            IN [headers |-> table_grid[1], rows |-> Tail(table_grid)]

\* _parse_table_block: the Ids of the first CHILD relationship, those that
\* resolve to a CELL block placed at (RowIndex - 1, ColumnIndex - 1), a later
\* cell overwriting an earlier one at the same position; None without cells
_parse_table_block(table_block, blocks) ==
    LET children == SelectSeq(RelationshipsOf(table_block), LAMBDA rel : rel.Type = "CHILD")
        cell_ids == IF children = <<>> THEN <<>> ELSE children[1].Ids
        cells == SelectSeq(cell_ids,
                     LAMBDA id : LET cell_block == BlockOf(blocks, id)
                                 IN cell_block # None /\ cell_block.BlockType = "CELL")
        row_index(k) == BlockOf(blocks, cells[k]).RowIndex - 1
        col_index(k) == BlockOf(blocks, cells[k]).ColumnIndex - 1
        text_at(r, c) ==
            LET at == { k \in 1..Len(cells) : row_index(k) = r /\ col_index(k) = c }
            IN IF at = {} THEN "" ELSE _get_cell_text(BlockOf(blocks, cells[Max(at)]), blocks)
    IN IF cell_ids = <<>> \/ cells = <<>> THEN None
       ELSE LET max_row == Max({ row_index(k) : k \in 1..Len(cells) })
                max_col == Max({ col_index(k) : k \in 1..Len(cells) })
                table_grid == [r \in 1..(max_row + 1) |->
                                 [c \in 1..(max_col + 1) |-> text_at(r - 1, c - 1)]]
            IN [headers |-> table_grid[1], rows |-> Tail(table_grid)]

\* a plausible slip: a TABLE without cells emitted as an empty Table
_extract_tables_from_blocks_keep(blocks) ==
    LET table_blocks == SelectSeq(blocks, LAMBDA b : b.BlockType = "TABLE")
    IN [k \in 1..Len(table_blocks) |->
          LET table_data == _parse_table_block(table_blocks[k], blocks)
              headers == IF table_data = None THEN <<>> ELSE table_data.headers
              rows == IF table_data = None THEN <<>> ELSE table_data.rows
          IN [id |-> "table-" \o NumStr(k - 1),
              title |-> "Table " \o NumStr(k),
              headers |-> headers,
              rows |-> rows,
              markdown |-> _table_to_markdown(headers, rows),
              pageNumber |-> table_blocks[k].Page,
              confidence |-> table_blocks[k].Confidence]]

\* _extract_tables_from_blocks: one Table per TABLE block that parses, idx
\* counting every TABLE block
_extract_tables_from_blocks(blocks) ==
    LET table_blocks == SelectSeq(blocks, LAMBDA b : b.BlockType = "TABLE")
        parsed == SelectSeq([k \in 1..Len(table_blocks) |-> k],
                      LAMBDA k : _parse_table_block(table_blocks[k], blocks) # None)
    IN [j \in 1..Len(parsed) |->
          LET idx == parsed[j] - 1
              table_block == table_blocks[parsed[j]]
              table_data == _parse_table_block(table_block, blocks)
          IN [id |-> "table-" \o NumStr(idx),
              title |-> "Table " \o NumStr(idx + 1),
              headers |-> table_data.headers,
              rows |-> table_data.rows,
              markdown |-> _table_to_markdown(table_data.headers, table_data.rows),
              pageNumber |-> table_block.Page,
              confidence |-> table_block.Confidence]]

\* the Document TextractProcessor.process_document returns for a response
TextractDocument(self, fp, ft, blocks) ==
    LET full_text == _extract_text_from_blocks(blocks)
        lines == SelectSeq(blocks, LAMBDA b : b.BlockType = "LINE")
    IN [success |-> TRUE,
        processor |-> "textract_" \o self.api_mode,
        fileName |-> basename(fp),
        content |-> full_text,
        type |-> ft,
        metadata |-> [pageCount |-> MaxPageOf(blocks),
                      wordCount |-> SumLen([i \in 1..Len(lines) |-> lines[i].Text]),
                      characterCount |-> Len(full_text),
                      language |-> "en",
                      title |-> basename(fp),
                      processor |-> "textract_" \o self.api_mode],
        tables |-> IF self.api_mode = "analyze"
                   THEN _extract_tables_from_blocks(blocks) ELSE <<>>,
        layout |-> [hasMultipleColumns |-> FALSE,
                    pageCount |-> MaxPageOf(blocks),
                    sections |-> <<>>],
        chunks |-> _create_chunks_from_blocks(blocks)]

\* TextractProcessor.process_document: every way the call can end.  The format
\* check comes first; then reading the file or the API call can fail (a
\* ClientError is re-raised with its code and message), or the API answers.
TextractProcessor_process_document(self, fp, ft) ==
    IF ~_is_supported_format(fp, ft)
    THEN { Raised("Format not supported by Textract: " \o ft
                  \o ". Supported: PDF, PNG, JPG, TIFF") }
    ELSE { Raised("[Errno 13] Permission denied"),
           Raised("Textract API error: " \o "ThrottlingException" \o " - " \o "Rate exceeded") }
         \cup { Returned(TextractDocument(self, fp, ft, blocks)) : blocks \in TextractResponses }

----------------------------------------------------------------------------
(* processors.local_processor.LocalProcessor *)

\* a raw grid as find_tables / extract_tables hand it over: header row first
SampleGrid == << <<"Item", "Amount">>, <<"Rent", "10">> >>

\* a page as the local libraries see it: the words of page.get_text() (the raw
\* text is the words joined by blanks plus a final newline, or "" for a page
\* without text) and the raw grids each table detector finds on it
LocalPage(words, grids) == [words |-> words, pymupdf_grids |-> grids, pdfplumber_grids |-> grids]

\* n pages of text, with the grids on the last page
LocalPagesOf(n, grids) ==
    [i \in 1..n |-> LocalPage(<<"Page", NumStr(i)>>, IF i = n THEN grids ELSE <<>>)]

\* the documents the local libraries open in the model
LocalFiles ==
    { LocalPagesOf(n, <<>>) : n \in 0..MaxPages }
    \cup { LocalPagesOf(n, <<SampleGrid>>) : n \in 1..MaxPages }
    \cup { << LocalPage(<<>>, <<>>) >> }

\* page.get_text() and text.strip()
RawText(page) == IF page.words = <<>> THEN "" ELSE JoinStr(page.words, " ") \o "\n"
StripText(page) == JoinStr(page.words, " ")

\* a plausible slip: the id of a table names its page only
GridTables_page_ids(grids, page_num, titled, extra) ==
    LET kept == SelectSeq([i \in 1..Len(grids) |-> [idx |-> i - 1, g |-> grids[i]]],
                          LAMBDA e : e.g # <<>>)
    IN [k \in 1..Len(kept) |->
          [id |-> "table-p" \o NumStr(page_num),
           title |-> titled,
           headers |-> kept[k].g[1],
           rows |-> Tail(kept[k].g),
           markdown |-> _table_to_markdown(kept[k].g[1], Tail(kept[k].g)),
           pageNumber |-> page_num] @@ extra]

\* the tables one detector's grids of one page become (same shape in
\* _extract_tables_pymupdf and _extract_tables_with_pdfplumber)
GridTables(grids, page_num, titled, extra) ==
    LET kept == SelectSeq([i \in 1..Len(grids) |-> [idx |-> i - 1, g |-> grids[i]]],
                          LAMBDA e : e.g # <<>>)
    IN [k \in 1..Len(kept) |->
          [id |-> "table-p" \o NumStr(page_num) \o "-" \o NumStr(kept[k].idx),
           title |-> titled,
           headers |-> kept[k].g[1],
           rows |-> Tail(kept[k].g),
           markdown |-> _table_to_markdown(kept[k].g[1], Tail(kept[k].g)),
           pageNumber |-> page_num] @@ extra]

\* _extract_tables_pymupdf(page, page_num)
_extract_tables_pymupdf(page, page_num) ==
    GridTables(page.pymupdf_grids, page_num, "Table on Page " \o NumStr(page_num), <<>>)

RECURSIVE PymupdfLoop(_, _, _, _, _, _)
\* the page loop of _process_with_pymupdf from page_num on; st carries
\* full_text (as its length and its words), chunks, tables and chunk_id
PymupdfLoop(pages, page_num, full_len, full_words, acc, chunk_id) ==
    IF page_num > Len(pages) THEN [len |-> full_len, words |-> full_words,
                                   chunks |-> acc.chunks, tables |-> acc.tables]
    ELSE LET page == pages[page_num]
             text == RawText(page)
             added == "\n--- Page " \o NumStr(page_num) \o " ---\n" \o text \o "\n"
             new_len == full_len + Len(added)
             page_tables == _extract_tables_pymupdf(page, page_num)
         IN IF StripText(page) # ""
            THEN PymupdfLoop(pages, page_num + 1, new_len,
                     full_words + 4 + Len(page.words),
                     [chunks |-> Append(acc.chunks,
                          [id |-> "chunk-" \o NumStr(chunk_id),
                           content |-> StripText(page),
                           startIndex |-> new_len - Len(text),
                           endIndex |-> new_len,
                           type |-> "page",
                           metadata |-> [pageNumber |-> page_num]]),
                      tables |-> acc.tables \o page_tables],
                     chunk_id + 1)
            ELSE PymupdfLoop(pages, page_num + 1, full_len, full_words,
                     [chunks |-> acc.chunks, tables |-> acc.tables \o page_tables],
                     chunk_id)

\* full_text.strip(): the page sections without the leading and trailing newlines
StrippedFullText(pages) ==
    LET idxs == SelectSeq([i \in 1..Len(pages) |-> i], LAMBDA i : StripText(pages[i]) # "")
    IN JoinStr([k \in 1..Len(idxs) |->
                  "--- Page " \o NumStr(idxs[k]) \o " ---\n" \o StripText(pages[idxs[k]])],
               "\n\n\n")

\* _process_with_pymupdf, once fitz.open has succeeded
_process_with_pymupdf(fp, pages) ==
    LET st == PymupdfLoop(pages, 1, 0, 0, [chunks |-> <<>>, tables |-> <<>>], 0)
        page_count == Len(pages)
    IN [success |-> TRUE,
        processor |-> "local_pymupdf",
        fileName |-> basename(fp),
        content |-> StrippedFullText(pages),
        type |-> "application/pdf",
        metadata |-> [pageCount |-> page_count,
                      wordCount |-> st.words,
                      characterCount |-> st.len,
                      language |-> "en"],
        tables |-> st.tables,
        layout |-> [hasMultipleColumns |-> FALSE, pageCount |-> page_count, sections |-> <<>>],
        chunks |-> st.chunks]

RECURSIVE PdfplumberLoop(_, _, _)
\* the page loop of _extract_tables_with_pdfplumber from page_num on
PdfplumberLoop(pages, page_num, tables) ==
    IF page_num > Len(pages) THEN tables
    ELSE LET found == GridTables(pages[page_num].pdfplumber_grids, page_num, "",
                                 [extractor |-> "pdfplumber"])
             titled == [k \in 1..Len(found) |->
                          [found[k] EXCEPT !.title = "Table " \o NumStr(Len(tables) + k)]]
         IN PdfplumberLoop(pages, page_num + 1, tables \o titled)

\* an Optional[List]: None, or a list
NoList == [is_none |-> TRUE, list |-> <<>>]
SomeList(l) == [is_none |-> FALSE, list |-> l]

\* _extract_tables_with_pdfplumber: None when pdfplumber is missing or raises
_extract_tables_with_pdfplumber(pages, pdfplumber_ok) ==
    IF ~pdfplumber_ok THEN NoList ELSE SomeList(PdfplumberLoop(pages, 1, <<>>))

\* a plausible slip: the two detectors' tables concatenated instead of one
\* list winning as a whole
merge_tables_concat(pdfplumber_tables, pymupdf_tables) ==
    IF pdfplumber_tables.is_none THEN pymupdf_tables
    ELSE pdfplumber_tables.list \o pymupdf_tables

\* pdfplumber_tables or pymupdf_data['tables']: a None and an empty list are
\* both falsy
merge_tables(pdfplumber_tables, pymupdf_tables) ==
    IF ~pdfplumber_tables.is_none /\ pdfplumber_tables.list # <<>>
    THEN pdfplumber_tables.list ELSE pymupdf_tables

\* LocalProcessor.process_document, once fitz.open has succeeded
LocalDocument(self, fp, ft, pages, pdfplumber_ok) ==
    LET pymupdf_data == _process_with_pymupdf(fp, pages)
        pdfplumber_tables == _extract_tables_with_pdfplumber(pages, pdfplumber_ok)
        merged == IF self.enable_pdfplumber
                  THEN [pymupdf_data EXCEPT !.tables = merge_tables(pdfplumber_tables, @)]
                  ELSE pymupdf_data
    IN [merged EXCEPT !.processor = IF self.enable_pdfplumber
                                    THEN "local_pymupdf_pdfplumber" ELSE "local_pymupdf",
                      !.type = ft]

\* LocalProcessor.process_document: every way the call can end.  fitz.open
\* can fail (the exception is logged and re-raised), otherwise the Document
\* is built; a pdfplumber failure is absorbed.
LocalProcessor_process_document(self, fp, ft) ==
    { Raised("Failed to open file '" \o fp.dir \o fp.base \o "'.") }
    \cup { Returned(LocalDocument(self, fp, ft, pages, ok)) :
             pages \in LocalFiles, ok \in BOOLEAN }

----------------------------------------------------------------------------
(* docling_processor.DocumentProcessor *)

\* the character threshold of _create_intelligent_chunks
CHUNK_THRESHOLD == 1500

\* a paragraph of content.split('\n\n') after para.strip(): its text and
\* whether it starts with '|'
Para(words) == [text |-> JoinStr(words, " "), nwords |-> Len(words), is_table |-> FALSE]

\* a paragraph that is the markdown of a table whose cells are single words:
\* every line is "| c | c |", 2 * columns + 1 tokens
TablePara(headers, rows) ==
    [text |-> _table_to_markdown(headers, rows),
     nwords |-> IF headers = <<>> THEN 0 ELSE (Len(rows) + 2) * (2 * Len(headers) + 1),
     is_table |-> headers # <<>>]

\* table["markdown"] in para, for paragraphs that are one table's markdown or
\* prose without any table in it (the empty string is in every paragraph)
MarkdownInPara(markdown, para) == markdown = "" \/ markdown = para.text

\* len(current_chunk): every buffered paragraph was added with "\n\n"
BufferLen(buffer) == Len(JoinStr(buffer, "")) + 2 * Len(buffer)

\* the 'paragraph' chunk a flush of the buffer emits
ParagraphChunk(chunk_id, buffer, current_start) ==
    [id |-> "chunk-" \o NumStr(chunk_id),
     content |-> JoinStr(buffer, "\n\n"),
     startIndex |-> current_start,
     endIndex |-> current_start + BufferLen(buffer),
     type |-> "paragraph",
     metadata |-> <<>>]

\* the id of the first table whose markdown is in the paragraph, else None
MatchingTableId(tables, para) ==
    LET hits == SelectSeq(tables, LAMBDA t : MarkdownInPara(t.markdown, para))
    IN IF hits = <<>> THEN NoneStr ELSE hits[1].id

RECURSIVE ChunkLoop(_, _, _, _, _, _, _)
\* the paragraph loop of _create_intelligent_chunks from paragraph i on; the
\* buffer current_chunk is carried as the paragraphs it holds
ChunkLoop(paragraphs, i, tables, chunks, chunk_id, buffer, current_start) ==
    IF i > Len(paragraphs)
    THEN IF buffer # <<>>
         THEN Append(chunks, ParagraphChunk(chunk_id, buffer, current_start))
         ELSE chunks
    ELSE LET para == paragraphs[i]
             flush == /\ \/ BufferLen(buffer) + Len(para.text) > CHUNK_THRESHOLD
                         \/ (para.is_table /\ buffer # <<>>)
                      /\ buffer # <<>>
             chunks1 == IF flush
                        THEN Append(chunks, ParagraphChunk(chunk_id, buffer, current_start))
                        ELSE chunks
             id1 == IF flush THEN chunk_id + 1 ELSE chunk_id
             start1 == IF flush THEN current_start + BufferLen(buffer) ELSE current_start
             buffer1 == Append(IF flush THEN <<>> ELSE buffer, para.text)
         IN IF para.text = "" THEN
                ChunkLoop(paragraphs, i + 1, tables, chunks, chunk_id, buffer, current_start)
            ELSE IF para.is_table THEN
                ChunkLoop(paragraphs, i + 1, tables,
                    Append(chunks1,
                        [id |-> "chunk-" \o NumStr(id1),
                         content |-> para.text,
                         startIndex |-> start1,
                         endIndex |-> start1 + Len(para.text),
                         type |-> "table",
                         metadata |-> [hasTable |-> TRUE,
                                       tableId |-> MatchingTableId(tables, para)]]),
                    id1 + 1, <<>>, start1 + Len(para.text))
            ELSE ChunkLoop(paragraphs, i + 1, tables, chunks1, id1, buffer1, start1)

\* a plausible slip: a table chunk is given a caption line above its markdown
_create_intelligent_chunks_captioned(paragraphs, tables) ==
    LET chunks == ChunkLoop(paragraphs, 1, tables, <<>>, 0, <<>>, 0)
    IN [i \in 1..Len(chunks) |->
          IF chunks[i].type = "table"
          THEN [chunks[i] EXCEPT !.content = "Table:\n" \o chunks[i].content]
          ELSE chunks[i]]

\* a plausible slip: endIndex reckoned from the stripped content of the chunk
_create_intelligent_chunks_stripped_end(paragraphs, tables) ==
    LET chunks == ChunkLoop(paragraphs, 1, tables, <<>>, 0, <<>>, 0)
    IN [i \in 1..Len(chunks) |->
          [chunks[i] EXCEPT !.endIndex = chunks[i].startIndex + Len(chunks[i].content)]]

\* a plausible slip: the test for a leading '|' is lost, every paragraph is prose
_create_intelligent_chunks_glued(paragraphs, tables) ==
    ChunkLoop([i \in 1..Len(paragraphs) |-> [paragraphs[i] EXCEPT !.is_table = FALSE]],
              1, tables, <<>>, 0, <<>>, 0)

\* _create_intelligent_chunks(content, tables, docling_result)
_create_intelligent_chunks(paragraphs, tables) ==
    ChunkLoop(paragraphs, 1, tables, <<>>, 0, <<>>, 0)

\* _extract_tables_from_docling: one table per grid of result.document.tables
_extract_tables_from_docling(grids) ==
    [i \in 1..Len(grids) |->
        LET headers == IF Len(grids[i]) > 0 THEN grids[i][1] ELSE <<>>
            rows == IF Len(grids[i]) > 1 THEN Tail(grids[i]) ELSE <<>>
        IN [id |-> "table-" \o NumStr(i - 1),
            title |-> "Table " \o NumStr(i),
            headers |-> headers,
            rows |-> rows,
            markdown |-> _table_to_markdown(headers, rows),
            pageNumber |-> NoneInt]]

\* what the Docling converter exports in the model: the paragraphs of the
\* markdown, the table grids and the page count
DoclingResults ==
    { [paragraphs |-> << Para(<<"Annual", "report">>) >>, grids |-> <<>>, page_count |-> 1],
      [paragraphs |-> << Para(<<"Annual", "report">>),
                         TablePara(SampleGrid[1], Tail(SampleGrid)),
                         Para(<<"Notes">>) >>,
       grids |-> <<SampleGrid>>, page_count |-> MaxPages] }

\* the Document _process_with_docling builds from a conversion result
DoclingDocument(fp, ft, r) ==
    LET markdown_content == JoinStr([i \in 1..Len(r.paragraphs) |-> r.paragraphs[i].text], "\n\n")
        tables == _extract_tables_from_docling(r.grids)
    IN [success |-> TRUE,
        processor |-> "docling",
        fileName |-> basename(fp),
        content |-> markdown_content,
        type |-> ft,
        metadata |-> [pageCount |-> r.page_count,
                      wordCount |-> SumLen([i \in 1..Len(r.paragraphs) |->
                                                [k \in 1..r.paragraphs[i].nwords |-> k]]),
                      characterCount |-> Len(markdown_content),
                      language |-> "en"],
        tables |-> tables,
        layout |-> [hasMultipleColumns |-> FALSE, pageCount |-> r.page_count, sections |-> <<>>],
        chunks |-> _create_intelligent_chunks(r.paragraphs, tables)]

\* _process_with_docling: a Document, or None when the conversion raises
_process_with_docling(fp, ft) ==
    {None} \cup { DoclingDocument(fp, ft, r) : r \in DoclingResults }

\* docling_processor's _process_with_pymupdf: it catches its own exceptions
\* and answers with an error document.  fitz.open can fail; after doc.close()
\* the metadata reads len(doc), which PyMuPDF refuses on a closed document
\* (ValueError) in the versions that check it and answers in the others.
docling_process_with_pymupdf(fp, ft) ==
    { docling_create_error_document(fp, "Failed to open file '" \o fp.dir \o fp.base \o "'."),
      docling_create_error_document(fp, "document closed") }
    \cup { [_process_with_pymupdf(fp, pages) EXCEPT
               !.processor = "pymupdf_fallback", !.type = ft,
               !.chunks = [k \in 1..Len(@) |-> [@[k] EXCEPT !.type = "paragraph"]]] :
           pages \in LocalFiles }

\* docling_processor.DocumentProcessor.process_document: the Documents the
\* call can return (Docling first when the converter exists, else PyMuPDF)
docling_process_document_results(self_converter, fp, ft) ==
    LET primary == IF self_converter THEN _process_with_docling(fp, ft) ELSE {None}
    IN (primary \ {None})
       \cup (IF None \in primary THEN docling_process_with_pymupdf(fp, ft) ELSE {})

----------------------------------------------------------------------------
(* document_processor.DocumentProcessor: construction *)

\* a plausible slip: the local processor is built whatever USE_LOCAL_FALLBACK says
_initialize_processors_always_local(cfg, textract_init_ok, PDFPLUMBER_AVAILABLE) ==
    [textract_processor |->
        IF cfg.AWS_TEXTRACT_ENABLED /\ textract_init_ok
        THEN [api_mode |-> cfg.TEXTRACT_API_MODE] ELSE None,
     local_processor |-> [enable_pdfplumber |-> cfg.ENABLE_PDFPLUMBER /\ PDFPLUMBER_AVAILABLE]]

\* _initialize_processors.  TextractProcessor() raises when boto3 is missing
\* or the client cannot be created, and the processor then stays None;
\* LocalProcessor() only computes enable_pdfplumber and logs, so it is built
\* whenever USE_LOCAL_FALLBACK is set.
_initialize_processors(cfg, textract_init_ok, PDFPLUMBER_AVAILABLE) ==
    [textract_processor |->
        IF cfg.AWS_TEXTRACT_ENABLED /\ textract_init_ok
        THEN [api_mode |-> cfg.TEXTRACT_API_MODE] ELSE None,
     local_processor |->
        IF cfg.USE_LOCAL_FALLBACK
        THEN [enable_pdfplumber |-> cfg.ENABLE_PDFPLUMBER /\ PDFPLUMBER_AVAILABLE]
        ELSE None]

Init ==
    /\ config \in ProcessorConfig
    /\ \E textract_init_ok \in BOOLEAN, PDFPLUMBER_AVAILABLE \in BOOLEAN :
          LET self == _initialize_processors(config, textract_init_ok, PDFPLUMBER_AVAILABLE)
          IN /\ textract_processor = self.textract_processor
             /\ local_processor = self.local_processor
    /\ converter \in BOOLEAN
    /\ pc = "idle"
    /\ module = NoneStr
    /\ file_path = None
    /\ file_type = NoneStr
    /\ file_size = NoneInt
    /\ use_textract = FALSE
    /\ trace = <<>>
    /\ result = None
    /\ raised = NoneStr
    /\ backend_call = [kind |-> "idle"]
    /\ tasks = <<>>

----------------------------------------------------------------------------
(* document_processor.DocumentProcessor.process_document *)

NoProcessorMessage ==
    "No document processor available (Textract disabled and local fallback unavailable)"

Invoke(backend) == [backend |-> backend, event |-> "invoke"]
Return(backend) == [backend |-> backend, event |-> "return"]
Raise(backend, msg) == [backend |-> backend, event |-> "raise", msg |-> msg]

\* _should_use_textract(file_size_bytes)
_should_use_textract(self_textract_processor, cfg, file_size_bytes) ==
    IF self_textract_processor = None THEN FALSE
    ELSE should_use_textract(cfg, file_size_bytes, NoneInt)

\* a plausible slip: an existing but inapplicable Textract processor is taken
\* for "no processor" instead of falling through to the local one
first_backend_no_downgrade(use, self_textract_processor, self_local_processor) ==
    IF use /\ self_textract_processor # None THEN "textract"
    ELSE IF self_textract_processor # None THEN "none"
    ELSE IF self_local_processor # None THEN "local"
    ELSE "none"

\* the backend the call turns to first: Textract when it applies, else the
\* local processor when there is one, else none
first_backend(use, self_textract_processor, self_local_processor) ==
    IF use /\ self_textract_processor # None THEN "textract"
    ELSE IF self_local_processor # None THEN "local"
    ELSE "none"

\* a plausible slip: the handler never raises again, so without fallback the
\* Textract failure is lost
after_textract_exception_swallow(cfg, self_local_processor) ==
    IF self_local_processor # None THEN "local" ELSE "none"

\* what the handler of a Textract exception leads to: the exception is raised
\* again without fallback, else the call goes on to the local processor (or
\* to "no processor" when there is none)
after_textract_exception(cfg, self_local_processor) ==
    IF ~cfg.USE_LOCAL_FALLBACK THEN "reraise"
    ELSE IF self_local_processor # None THEN "local"
    ELSE "none"

\* the call up to its first await (or its end): os.path.getsize is outside
\* the try block, so its OSError leaves the call
process_document(fp, ft, getsize) ==
    /\ pc = "idle"
    /\ module' = "document_processor"
    /\ file_path' = fp
    /\ file_type' = ft
    /\ IF ~getsize.ok
       THEN /\ file_size' = NoneInt
            /\ use_textract' = FALSE
            /\ trace' = <<>>
            /\ result' = None
            /\ raised' = OSError
            /\ pc' = "done"
       ELSE LET use == _should_use_textract(textract_processor, config, getsize.size)
                first == first_backend(use, textract_processor, local_processor)
            IN /\ file_size' = getsize.size
               /\ use_textract' = use
               /\ raised' = NoneStr
               /\ CASE first = "textract" ->
                        /\ trace' = << Invoke("textract") >>
                        /\ result' = None
                        /\ pc' = "await_textract"
                    [] first = "local" ->
                        /\ trace' = << Invoke("local") >>
                        /\ result' = None
                        /\ pc' = "await_local"
                    [] OTHER ->
                        /\ trace' = <<>>
                        /\ result' = _create_error_document(fp, NoProcessorMessage)
                        /\ pc' = "done"
    /\ UNCHANGED <<others, config, textract_processor, local_processor, converter>>

\* await self.textract_processor.process_document(...) returns
textract_returns(o) ==
    /\ pc = "await_textract"
    /\ o \in TextractProcessor_process_document(textract_processor, file_path, file_type)
    /\ o.kind = "return"
    /\ trace' = Append(trace, Return("textract"))
    /\ result' = o.doc
    /\ pc' = "done"
    /\ UNCHANGED <<others, config, textract_processor, local_processor, converter, module,
                   file_path, file_type, file_size, use_textract, raised>>

\* a plausible slip: a failed Textract call is tried again
textract_raises_retry(o) ==
    /\ pc = "await_textract"
    /\ o \in TextractProcessor_process_document(textract_processor, file_path, file_type)
    /\ o.kind = "raise"
    /\ trace' = trace \o << Raise("textract", o.msg), Invoke("textract") >>
    /\ UNCHANGED <<others, config, textract_processor, local_processor, converter, pc, module,
                   file_path, file_type, file_size, use_textract, result, raised>>

\* await self.textract_processor.process_document(...) raises
textract_raises(o) ==
    /\ pc = "await_textract"
    /\ o \in TextractProcessor_process_document(textract_processor, file_path, file_type)
    /\ o.kind = "raise"
    /\ LET next == after_textract_exception(config, local_processor)
       IN CASE next = "reraise" ->
                 /\ trace' = Append(trace, Raise("textract", o.msg))
                 /\ result' = _create_error_document(file_path, o.msg)
                 /\ pc' = "done"
            [] next = "local" ->
                 /\ trace' = trace \o << Raise("textract", o.msg), Invoke("local") >>
                 /\ result' = None
                 /\ pc' = "await_local"
            [] OTHER ->
                 /\ trace' = Append(trace, Raise("textract", o.msg))
                 /\ result' = _create_error_document(file_path, NoProcessorMessage)
                 /\ pc' = "done"
    /\ UNCHANGED <<others, config, textract_processor, local_processor, converter, module,
                   file_path, file_type, file_size, use_textract, raised>>

\* await self.local_processor.process_document(...) returns
local_returns(o) ==
    /\ pc = "await_local"
    /\ o \in LocalProcessor_process_document(local_processor, file_path, file_type)
    /\ o.kind = "return"
    /\ trace' = Append(trace, Return("local"))
    /\ result' = o.doc
    /\ pc' = "done"
    /\ UNCHANGED <<others, config, textract_processor, local_processor, converter, module,
                   file_path, file_type, file_size, use_textract, raised>>

\* a plausible slip: the error document gets a fixed message instead of str(e)
local_raises_fixed_message(o) ==
    /\ pc = "await_local"
    /\ o \in LocalProcessor_process_document(local_processor, file_path, file_type)
    /\ o.kind = "raise"
    /\ trace' = Append(trace, Raise("local", o.msg))
    /\ result' = _create_error_document(file_path, NoProcessorMessage)
    /\ pc' = "done"
    /\ UNCHANGED <<others, config, textract_processor, local_processor, converter, module,
                   file_path, file_type, file_size, use_textract, raised>>

\* await self.local_processor.process_document(...) raises: the outer handler
\* turns the exception into the error document
local_raises(o) ==
    /\ pc = "await_local"
    /\ o \in LocalProcessor_process_document(local_processor, file_path, file_type)
    /\ o.kind = "raise"
    /\ trace' = Append(trace, Raise("local", o.msg))
    /\ result' = _create_error_document(file_path, o.msg)
    /\ pc' = "done"
    /\ UNCHANGED <<others, config, textract_processor, local_processor, converter, module,
                   file_path, file_type, file_size, use_textract, raised>>

----------------------------------------------------------------------------
(* docling_processor.DocumentProcessor.process_document *)

docling_process_document(fp, ft, doc) ==
    /\ pc = "idle"
    /\ doc \in docling_process_document_results(converter, fp, ft)
    /\ module' = "docling_processor"
    /\ file_path' = fp
    /\ file_type' = ft
    /\ file_size' = NoneInt
    /\ use_textract' = FALSE
    /\ trace' = <<>>
    /\ result' = doc
    /\ raised' = NoneStr
    /\ pc' = "done"
    /\ UNCHANGED <<others, config, textract_processor, local_processor, converter>>

----------------------------------------------------------------------------

\* the caller has taken the outcome of the call; the processor is ready for
\* the next call and the locals of the finished call are gone
call_ends ==
    /\ pc = "done"
    /\ pc' = "idle"
    /\ module' = NoneStr
    /\ file_path' = None
    /\ file_type' = NoneStr
    /\ file_size' = NoneInt
    /\ use_textract' = FALSE
    /\ trace' = <<>>
    /\ result' = None
    /\ raised' = NoneStr
    /\ UNCHANGED <<others, config, textract_processor, local_processor, converter>>

Next ==
    \/ /\ pc = "idle"
       /\ \E fp \in FilePaths, ft \in FileTypes, getsize \in GetSizeResults(config) :
             process_document(fp, ft, getsize)
    \/ /\ pc = "await_textract"
       /\ \E o \in TextractProcessor_process_document(textract_processor, file_path, file_type) :
             textract_returns(o)
    \/ /\ pc = "await_textract"
       /\ \E o \in TextractProcessor_process_document(textract_processor, file_path, file_type) :
             textract_raises(o)
    \/ /\ pc = "await_local"
       /\ \E o \in LocalProcessor_process_document(local_processor, file_path, file_type) :
             local_returns(o)
    \/ /\ pc = "await_local"
       /\ \E o \in LocalProcessor_process_document(local_processor, file_path, file_type) :
             local_raises(o)
    \/ /\ pc = "idle"
       /\ \E fp \in FilePaths, ft \in FileTypes :
             \E doc \in docling_process_document_results(converter, fp, ft) :
                docling_process_document(fp, ft, doc)
    \/ call_ends

Spec == Init /\ [][Next]_vars

----------------------------------------------------------------------------
(* Properties of the Processor Selector and of the error documents *)

\* the current call is a call of document_processor's process_document
SelectorCall == module = "document_processor"

\* a backend was invoked / raised / returned in the current call
Invoked(backend) == \E i \in 1..Len(trace) : trace[i] = Invoke(backend)
Failed(backend) == \E i \in 1..Len(trace) : trace[i].backend = backend /\ trace[i].event = "raise"
Succeeded(backend) == \E i \in 1..Len(trace) : trace[i] = Return(backend)

\* the configured size limit, in bytes
MaxBytes == config.TEXTRACT_MAX_FILE_SIZE_MB * BytesPerMB

\* the call in flight has returned a Document
ReturnedDocument == pc = "done" /\ result # None

\* C1: process_document of the selector never raises to its caller: every
\* finished call, whatever the configuration, the file (a path whose size
\* cannot be read included) and the backend outcomes, has returned a Document.
C1_NeverRaises ==
    (SelectorCall /\ pc = "done") => (raised = NoneStr /\ result # None)

\* C2: every Document with success = false, whichever processor module made
\* it, has exactly one chunk, of type 'error', and no tables.
C2_ErrorDocumentShape ==
    (ReturnedDocument /\ ~result.success) =>
        /\ Len(result.chunks) = 1
        /\ result.chunks[1].type = "error"
        /\ result.tables = <<>>

\* C3: every terminal-error Document of the selector has processor = 'error',
\* zero counts (wordCount, characterCount, layout pageCount), and its one
\* chunk carries the message whose description is in the 'error' field.
C3_ZeroCountMetadata ==
    (SelectorCall /\ ReturnedDocument /\ ~result.success) =>
        /\ result.processor = "error"
        /\ result.metadata.wordCount = 0
        /\ result.metadata.characterCount = 0
        /\ result.layout.pageCount = 0
        /\ Len(result.chunks) = 1
        /\ result.chunks[1].content = "Error processing document: " \o result.error

\* C4: the cloud backend is invoked only if cloud processing is enabled, the
\* cloud processor was initialised and the file size is at most the configured
\* maximum (and a known page count is at most its maximum); a file of exactly
\* the maximum size is still eligible.
C4_CloudOnlyIfEligible ==
    /\ (SelectorCall /\ Invoked("textract")) =>
          /\ config.AWS_TEXTRACT_ENABLED
          /\ textract_processor # None
          /\ file_size <= MaxBytes
    /\ \A sz \in FileSizes(config), pages \in PageCounts :
          should_use_textract(config, sz, pages) =>
             /\ config.AWS_TEXTRACT_ENABLED
             /\ sz <= MaxBytes
             /\ (pages # NoneInt => pages <= config.TEXTRACT_MAX_PAGES)
    /\ (SelectorCall /\ pc # "idle" /\ file_size = MaxBytes
          /\ config.AWS_TEXTRACT_ENABLED /\ textract_processor # None) =>
          (trace # <<>> /\ trace[1] = Invoke("textract"))

\* C4 happens: the cloud backend was invoked for a file of exactly the maximum size
C4_Witness ==
    SelectorCall /\ Invoked("textract") /\ file_size = MaxBytes

\* the Documents the local backend can return for the current call
LocalDocumentsOfCall ==
    { o.doc : o \in { x \in LocalProcessor_process_document(local_processor, file_path, file_type) :
                        x.kind = "return" } }

\* C5: for a file larger than the configured cloud maximum, with local
\* fallback enabled, the local backend is invoked and its result returned, and
\* the cloud backend is never called in that call.
C5_OversizeRoutesToLocal ==
    (SelectorCall /\ pc # "idle" /\ file_size # NoneInt /\ file_size > MaxBytes
       /\ config.USE_LOCAL_FALLBACK) =>
        /\ trace # <<>> /\ trace[1] = Invoke("local")
        /\ ~Invoked("textract")
        /\ (pc = "done" /\ Succeeded("local")) => result \in LocalDocumentsOfCall

\* C5 happens: a 50 MB file against a 10 MB limit, cloud processor ready,
\* processed by the local backend
C5_Witness ==
    /\ SelectorCall /\ pc = "done"
    /\ config.AWS_TEXTRACT_ENABLED /\ textract_processor # None
    /\ config.USE_LOCAL_FALLBACK
    /\ config.TEXTRACT_MAX_FILE_SIZE_MB = 10 /\ file_size = 50 * BytesPerMB
    /\ Succeeded("local") /\ result.success

\* C6: when the cloud backend was invoked and failed: with local fallback
\* permitted the local backend is invoked next and its outcome is the call's
\* outcome (a successful local Document has success = true and no error
\* field); without it the call returns the error Document whose message is the
\* cloud failure's description.
C6_CloudFailure ==
    (SelectorCall /\ Failed("textract")) =>
        /\ trace[1] = Invoke("textract") /\ trace[2].event = "raise"
        /\ config.USE_LOCAL_FALLBACK =>
              /\ Len(trace) >= 3 /\ trace[3] = Invoke("local")
              /\ (pc = "done" /\ Succeeded("local")) =>
                    /\ result \in LocalDocumentsOfCall
                    /\ result.success
                    /\ "error" \notin DOMAIN result
              /\ (pc = "done" /\ Failed("local")) =>
                    result = _create_error_document(file_path, trace[Len(trace)].msg)
        /\ ~config.USE_LOCAL_FALLBACK =>
              /\ pc = "done"
              /\ ~Invoked("local")
              /\ ~result.success
              /\ result.error = trace[2].msg
              /\ result = _create_error_document(file_path, trace[2].msg)

\* C6 happens (fallback permitted): the cloud call failed and the local
\* backend's Document was returned
C6_Witness ==
    /\ SelectorCall /\ pc = "done" /\ Failed("textract")
    /\ config.USE_LOCAL_FALLBACK /\ Succeeded("local") /\ result.success

\* C7: a failure of the local backend is terminal: the call returns the error
\* Document carrying the local failure's message and no backend is invoked
\* after the failure.
C7_LocalFailureTerminal ==
    (SelectorCall /\ Failed("local")) =>
        /\ pc = "done"
        /\ trace[Len(trace)].backend = "local" /\ trace[Len(trace)].event = "raise"
        /\ ~result.success
        /\ result.error = trace[Len(trace)].msg
        /\ result = _create_error_document(file_path, trace[Len(trace)].msg)

\* C7 happens: the local backend failed after the cloud backend had failed
C7_Witness ==
    SelectorCall /\ Failed("textract") /\ Failed("local") /\ pc = "done"

\* C8: with cloud disabled and local fallback disabled, a call (given a file
\* size) invokes no backend and returns the 'no processor available' error
\* Document.
C8_NoProcessor ==
    (SelectorCall /\ pc # "idle" /\ file_size # NoneInt
       /\ ~config.AWS_TEXTRACT_ENABLED /\ ~config.USE_LOCAL_FALLBACK) =>
        /\ pc = "done"
        /\ trace = <<>>
        /\ ~result.success
        /\ result.error = NoProcessorMessage
        /\ result = _create_error_document(file_path, NoProcessorMessage)

\* C8 happens: a sized file was submitted with both backends disabled
C8_Witness ==
    /\ SelectorCall /\ pc = "done" /\ file_size # NoneInt
    /\ ~config.AWS_TEXTRACT_ENABLED /\ ~config.USE_LOCAL_FALLBACK
    /\ result # None

\* C9: ineligibility of the cloud backend never surfaces as an error: a
\* returned error Document always comes from a backend failure or from there
\* being no local processor, and when the cloud backend is ineligible and the
\* local backend returns, the call returns that successful Document.
C9_IneligibilityIsSilent ==
    /\ (SelectorCall /\ ReturnedDocument /\ ~result.success) =>
          \/ Failed("textract") \/ Failed("local")
          \/ local_processor = None
    /\ (SelectorCall /\ pc # "idle" /\ file_size # NoneInt /\ ~use_textract
          /\ local_processor # None) =>
          /\ trace # <<>> /\ trace[1] = Invoke("local")
          /\ (pc = "done" /\ Succeeded("local")) => result.success

\* C9 happens: the cloud processor is ready but the file is just over the
\* limit, and the local Document is returned
C9_Witness ==
    /\ SelectorCall /\ pc = "done"
    /\ textract_processor # None /\ ~use_textract /\ file_size = MaxBytes + 1
    /\ result # None /\ result.success

\* C10: within one call the backends run sequentially and without retry: each
\* is invoked at most once, cloud before local, local only after the cloud
\* backend was skipped or has failed, and nothing is invoked after a backend
\* has returned.
C10_SequentialNoRetry ==
    SelectorCall =>
        /\ \A i, j \in 1..Len(trace) :
              (trace[i].event = "invoke" /\ trace[j].event = "invoke"
                 /\ trace[i].backend = trace[j].backend) => i = j
        /\ \A i, j \in 1..Len(trace) :
              (trace[i] = Invoke("textract") /\ trace[j] = Invoke("local")) =>
                  /\ i < j
                  /\ trace[j - 1].backend = "textract" /\ trace[j - 1].event = "raise"
        /\ \A j \in 1..Len(trace) :
              (trace[j] = Invoke("local") /\ ~Invoked("textract")) =>
                  (j = 1 /\ ~(use_textract /\ textract_processor # None))
        /\ \A i \in 1..Len(trace) :
              trace[i].event = "return" => (i = Len(trace) /\ pc = "done")
        /\ (pc = "await_textract") =>
              (trace[Len(trace)] = Invoke("textract") /\ ~Invoked("local"))

\* C10 happens: both backends were invoked in one call, the local one after
\* the cloud failure
C10_Witness ==
    /\ SelectorCall /\ Len(trace) = 4
    /\ trace[1] = Invoke("textract") /\ trace[3] = Invoke("local")

----------------------------------------------------------------------------
(* The backends run on their own: one operation of a backend is applied to  *)
(* an input and backend_call keeps the input and what the operation left.   *)

\* the largest document the local libraries are handed here
MaxLocalPages == 2

\* the pages a PDF can hold: with or without text, and with the grids each of
\* the two detectors finds (the detectors need not agree)
LocalPageKinds ==
    [words : {<<>>, <<"Total", "due">>},
     pymupdf_grids : {<<>>, <<SampleGrid>>},
     pdfplumber_grids : {<<>>, <<SampleGrid>>}]
    \cup { [words |-> <<"Total", "due">>,
            pymupdf_grids |-> <<SampleGrid, SampleGrid>>,
            pdfplumber_grids |-> grids] : grids \in {<<>>, <<SampleGrid, <<>>, SampleGrid>>} }

LocalDocuments == UNION { [1..n -> LocalPageKinds] : n \in 0..MaxLocalPages }

\* where a library call of LocalProcessor.process_document raises, if any
\*   "fitz.open"        fitz.open(file_path)
\*   k in 1..len(doc)   doc[k - 1] / page.get_text() of page k
\*   "pdfplumber.open"  pdfplumber.open(file_path)
\*   "extract_tables"   page.extract_tables() inside the with block
LocalFaults(pages) ==
    [at : {"none", "fitz.open", "pdfplumber.open", "extract_tables"}, page : {0}]
    \cup [at : {"get_text"}, page : 1..Len(pages)]

\* a plausible slip: the except clause of _extract_tables_with_pdfplumber
\* re-raising like the one of _process_with_pymupdf does
LocalProcessor_run_reraise(self, fp, ft, pages, fault) ==
    IF fault.at = "fitz.open"
    THEN [outcome |-> Raised("Failed to open file '" \o fp.dir \o fp.base \o "'."),
          fitz_handle |-> "unopened", pdfplumber_handle |-> "unopened",
          pymupdf_data |-> None, pdfplumber_tables |-> NoList]
    ELSE IF fault.at = "get_text"
    THEN [outcome |-> Raised("cannot read page " \o NumStr(fault.page)),
          fitz_handle |-> "open", pdfplumber_handle |-> "unopened",
          pymupdf_data |-> None, pdfplumber_tables |-> NoList]
    ELSE IF self.enable_pdfplumber /\ fault.at \in {"pdfplumber.open", "extract_tables"}
    THEN [outcome |-> Raised("pdfplumber failed"),
          fitz_handle |-> "closed",
          pdfplumber_handle |-> IF fault.at = "pdfplumber.open" THEN "unopened" ELSE "closed",
          pymupdf_data |-> _process_with_pymupdf(fp, pages), pdfplumber_tables |-> NoList]
    ELSE [outcome |-> Returned(LocalDocument(self, fp, ft, pages, TRUE)),
          fitz_handle |-> "closed",
          pdfplumber_handle |-> IF self.enable_pdfplumber THEN "closed" ELSE "unopened",
          pymupdf_data |-> _process_with_pymupdf(fp, pages),
          pdfplumber_tables |-> IF self.enable_pdfplumber
                                THEN _extract_tables_with_pdfplumber(pages, TRUE)
                                ELSE NoList]

\* LocalProcessor.process_document with the library handles it leaves behind.
\* _process_with_pymupdf closes doc after the page loop and nowhere else, and
\* re-raises what the loop raises; _extract_tables_with_pdfplumber opens the
\* file in a with block, and returns None from its except clause.
LocalProcessor_run(self, fp, ft, pages, fault) ==
    IF fault.at = "fitz.open"
    THEN [outcome |-> Raised("Failed to open file '" \o fp.dir \o fp.base \o "'."),
          fitz_handle |-> "unopened", pdfplumber_handle |-> "unopened",
          pymupdf_data |-> None, pdfplumber_tables |-> NoList]
    ELSE IF fault.at = "get_text"
    THEN [outcome |-> Raised("cannot read page " \o NumStr(fault.page)),
          fitz_handle |-> "open", pdfplumber_handle |-> "unopened",
          pymupdf_data |-> None, pdfplumber_tables |-> NoList]
    ELSE LET pdfplumber_ok == fault.at \notin {"pdfplumber.open", "extract_tables"}
         IN [outcome |-> Returned(LocalDocument(self, fp, ft, pages, pdfplumber_ok)),
             fitz_handle |-> "closed",
             pdfplumber_handle |->
                 IF self.enable_pdfplumber /\ fault.at # "pdfplumber.open"
                 THEN "closed" ELSE "unopened",
             pymupdf_data |-> _process_with_pymupdf(fp, pages),
             pdfplumber_tables |-> IF self.enable_pdfplumber
                                   THEN _extract_tables_with_pdfplumber(pages, pdfplumber_ok)
                                   ELSE NoList]

IdleCall == [kind |-> "idle"]

\* a LocalProcessor is constructed and process_document is awaited once
local_process_document(ENABLE_PDFPLUMBER, PDFPLUMBER_AVAILABLE, fp, pages, fault) ==
    /\ backend_call = IdleCall
    /\ LET self == [enable_pdfplumber |-> ENABLE_PDFPLUMBER /\ PDFPLUMBER_AVAILABLE]
       IN backend_call' =
            [kind |-> "local",
             ENABLE_PDFPLUMBER |-> ENABLE_PDFPLUMBER,
             PDFPLUMBER_AVAILABLE |-> PDFPLUMBER_AVAILABLE,
             self |-> self,
             pages |-> pages,
             fault |-> fault,
             run |-> LocalProcessor_run(self, fp, "application/pdf", pages, fault)]
    /\ UNCHANGED <<tasks, config, textract_processor, local_processor, converter, pc, module,
                   file_path, file_type, file_size, use_textract, trace, result, raised>>

\* the operation's results are dropped
backend_call_ends ==
    /\ backend_call # IdleCall
    /\ backend_call' = IdleCall
    /\ UNCHANGED <<tasks, config, textract_processor, local_processor, converter, pc, module,
                   file_path, file_type, file_size, use_textract, trace, result, raised>>

\* the most CELL children of a TABLE, the grid positions they can name, the
\* most LINE blocks of a response
MaxCells == 2
MaxGridRows == 2
MaxGridCols == 2
MaxLines == 3

\* the Text of the WORD children of the k-th cell of a table: one word, two
\* words around a WORD without text, no text at all
CellWords(k) ==
    CASE k = 1 -> <<"Q1">>
      [] k = 2 -> <<"Net", "", "income">>
      [] k = 3 -> <<"">>
      [] OTHER -> <<"x">>

\* how a TABLE block refers to its cells
\*   "none"        no Relationships
\*   "other"       a relationship that is not CHILD
\*   "empty"       a CHILD relationship without Ids
\*   "unresolved"  CHILD Ids that name no block, or a WORD block
\*   "cells"       CHILD Ids that name CELL blocks
\*   "mixed"       another relationship first, and a stray Id among the cells
TableShapes ==
    [rels : {"none", "other", "empty", "unresolved"}, cells : {<<>>}]
    \cup [rels : {"cells", "mixed"},
          cells : UNION { [1..n -> [RowIndex : 1..MaxGridRows, ColumnIndex : 1..MaxGridCols]] :
                          n \in 1..MaxCells }]

\* the shapes of the first TABLE of a response that holds two: without cells,
\* or with one cell
PairedShapes == { s \in TableShapes : Len(s.cells) <= 1 }

\* the shapes of a second TABLE of the same response
SecondShapes ==
    { [rels |-> "none", cells |-> <<>>],
      [rels |-> "unresolved", cells |-> <<>>],
      [rels |-> "cells", cells |-> << [RowIndex |-> 1, ColumnIndex |-> 1] >>],
      [rels |-> "cells", cells |-> << [RowIndex |-> 2, ColumnIndex |-> 2] >>] }

\* the blocks of the t-th TABLE of a response: the TABLE, its CELLs and their
\* WORDs, and one WORD that belongs to no cell
TableBlocks(t, shape) ==
    LET cell_id(k) == "t" \o NumStr(t) \o "c" \o NumStr(k)
        word_id(k, w) == cell_id(k) \o "w" \o NumStr(w)
        stray == [Id |-> "t" \o NumStr(t) \o "w", BlockType |-> "WORD", Page |-> 1, Text |-> "Note"]
        cell_ids == [k \in 1..Len(shape.cells) |-> cell_id(k)]
        child(ids) == [Type |-> "CHILD", Ids |-> ids]
        merged == [Type |-> "MERGED_CELL", Ids |-> <<"t" \o NumStr(t) \o "m">>]
        table == [Id |-> "t" \o NumStr(t), BlockType |-> "TABLE", Page |-> 1, Confidence |-> 99]
        with(rels) == table @@ [Relationships |-> rels]
        table_block ==
            CASE shape.rels = "none" -> table
              [] shape.rels = "other" -> with(<<merged>>)
              [] shape.rels = "empty" -> with(<<child(<<>>)>>)
              [] shape.rels = "unresolved" -> with(<<child(<<"gone", stray.Id>>)>>)
              [] shape.rels = "cells" -> with(<<child(cell_ids)>>)
              [] OTHER -> with(<<merged, child(<<"gone">> \o cell_ids)>>)
        cell_blocks ==
            [k \in 1..Len(shape.cells) |->
               [Id |-> cell_id(k), BlockType |-> "CELL", Page |-> 1,
                RowIndex |-> shape.cells[k].RowIndex,
                ColumnIndex |-> shape.cells[k].ColumnIndex,
                Relationships |-> << child([w \in 1..Len(CellWords(k)) |-> word_id(k, w)]) >>]]
        RECURSIVE word_blocks(_)
        word_blocks(k) ==
            IF k > Len(shape.cells) THEN <<>>
            ELSE [w \in 1..Len(CellWords(k)) |->
                    [Id |-> word_id(k, w), BlockType |-> "WORD", Page |-> 1,
                     Text |-> CellWords(k)[w]]] \o word_blocks(k + 1)
    IN <<table_block>> \o cell_blocks \o word_blocks(1) \o <<stray>>

\* the Blocks of the responses parsed here: one or two TABLEs with their
\* cells, LINE blocks of which some are blank, or a TABLE between two LINEs
BlockLists ==
    { TableBlocks(1, s1) : s1 \in TableShapes }
    \cup { TableBlocks(1, s1) \o TableBlocks(2, s2) : s1 \in PairedShapes, s2 \in SecondShapes }
    \cup UNION { [1..n -> { LineBlock("l", page, words) :
                              page \in 1..MaxPages,
                              words \in {<<>>, <<"Revenue">>, <<"Net", "income">>} }] :
                 n \in 0..MaxLines }
    \cup { << LineBlock("l1", 1, <<"Revenue">>) >> \o TableBlocks(1, s1)
             \o << LineBlock("l2", 1, <<"Net", "income">>) >> : s1 \in SecondShapes }

\* the TABLE blocks of a list of blocks
TableBlocksOf(blocks) == SelectSeq(blocks, LAMBDA b : b.BlockType = "TABLE")

\* a TextractProcessor turns the Blocks of one response into a Document
textract_extract(api_mode, blocks) ==
    /\ backend_call = IdleCall
    /\ backend_call' =
         [kind |-> "textract",
          api_mode |-> api_mode,
          blocks |-> blocks,
          parsed |-> [k \in 1..Len(TableBlocksOf(blocks)) |->
                        _parse_table_block(TableBlocksOf(blocks)[k], blocks)],
          doc |-> TextractDocument([api_mode |-> api_mode],
                                   [dir |-> "/data/", base |-> "report.pdf", suffix |-> ".pdf"],
                                   "application/pdf", blocks)]
    /\ UNCHANGED <<tasks, config, textract_processor, local_processor, converter, pc, module,
                   file_path, file_type, file_size, use_textract, trace, result, raised>>

\* the most paragraphs handed to the chunker, and a paragraph of LongWords
\* words of 50 characters, so long that two of them pass the threshold
MaxParas == 3
LongWords == 15
LongWord == "loremipsumdolorsitametconsecteturadipiscingelitsed"

\* a paragraph that fills a buffer holding one long paragraph up to the
\* threshold exactly: its length, the separator and the long paragraph's
\* length add up to CHUNK_THRESHOLD
BoundaryPara == Para([i \in 1..(LongWords - 1) |-> LongWord] \o <<"abcdefghijklmnopqrst">>)

\* content.split('\n\n'): an empty paragraph, a short one, a long one, one
\* that reaches the boundary, a table
ParaKinds ==
    { Para(<<>>), Para(<<"Annual", "report">>), Para([i \in 1..LongWords |-> LongWord]),
      BoundaryPara, TablePara(SampleGrid[1], Tail(SampleGrid)) }

\* ProcessorConfig.CHUNK_SIZE: int(os.getenv('CHUNK_SIZE', '1500')), the
\* default or a smaller configured size
CHUNK_SIZE_DEFAULT == 1500
ChunkSizes == {CHUNK_SIZE_DEFAULT, 1000}

\* _create_intelligent_chunks is applied to a markdown export, in a process
\* configured with CHUNK_SIZE
create_intelligent_chunks(CHUNK_SIZE, paragraphs, grids) ==
    /\ backend_call = IdleCall
    /\ backend_call' =
         [kind |-> "chunker",
          CHUNK_SIZE |-> CHUNK_SIZE,
          paragraphs |-> paragraphs,
          tables |-> _extract_tables_from_docling(grids),
          chunks |-> _create_intelligent_chunks(paragraphs, _extract_tables_from_docling(grids))]
    /\ UNCHANGED <<tasks, config, textract_processor, local_processor, converter, pc, module,
                   file_path, file_type, file_size, use_textract, trace, result, raised>>

\* the files and declared types TextractProcessor.process_document is asked
\* about: suffix is Path(p).suffix.lower()
TextractFiles ==
    FilePaths \cup { [dir |-> "/tmp/", base |-> "SCAN.PNG", suffix |-> ".png"],
                     [dir |-> "/tmp/", base |-> "memo.docx", suffix |-> ".docx"] }

TextractFileTypes == FileTypes \cup {"image/tiff", "application/octet-stream"}

\* what can go wrong in one call: nothing, open(file_path, 'rb') raises, or
\* the API answers with a ClientError
TextractFaults == {"none", "open", "api"}

\* a plausible slip: the format is checked on the way out, after the API call
TextractProcessor_run_check_late(self, fp, ft, fault, blocks) ==
    LET api == IF self.api_mode = "detect" THEN "detect_document_text" ELSE "analyze_document"
    IN IF fault = "open"
       THEN [api_calls |-> <<>>, file_read |-> FALSE,
             outcome |-> Raised("[Errno 13] Permission denied")]
       ELSE IF fault = "api"
       THEN [api_calls |-> <<api>>, file_read |-> TRUE,
             outcome |-> Raised("Textract API error: " \o "ThrottlingException"
                                \o " - " \o "Rate exceeded")]
       ELSE IF ~_is_supported_format(fp, ft)
       THEN [api_calls |-> <<api>>, file_read |-> TRUE,
             outcome |-> Raised("Format not supported by Textract: " \o ft
                                \o ". Supported: PDF, PNG, JPG, TIFF")]
       ELSE [api_calls |-> <<api>>, file_read |-> TRUE,
             outcome |-> Returned(TextractDocument(self, fp, ft, blocks))]

\* TextractProcessor.process_document step by step: the format check, reading
\* the file, one call of the API of the configured mode, building the
\* Document; api_calls are the client methods called, in order
TextractProcessor_run(self, fp, ft, fault, blocks) ==
    LET api == IF self.api_mode = "detect" THEN "detect_document_text" ELSE "analyze_document"
    IN IF ~_is_supported_format(fp, ft)
       THEN [api_calls |-> <<>>, file_read |-> FALSE,
             outcome |-> Raised("Format not supported by Textract: " \o ft
                                \o ". Supported: PDF, PNG, JPG, TIFF")]
       ELSE IF fault = "open"
       THEN [api_calls |-> <<>>, file_read |-> FALSE,
             outcome |-> Raised("[Errno 13] Permission denied")]
       ELSE IF fault = "api"
       THEN [api_calls |-> <<api>>, file_read |-> TRUE,
             outcome |-> Raised("Textract API error: " \o "ThrottlingException"
                                \o " - " \o "Rate exceeded")]
       ELSE [api_calls |-> <<api>>, file_read |-> TRUE,
             outcome |-> Returned(TextractDocument(self, fp, ft, blocks))]

\* TextractProcessor.process_document is called on a file
textract_process_document(api_mode, fp, ft, fault, blocks) ==
    /\ backend_call = IdleCall
    /\ backend_call' =
         [kind |-> "textract_process",
          api_mode |-> api_mode,
          file_path |-> fp,
          file_type |-> ft,
          fault |-> fault,
          run |-> TextractProcessor_run([api_mode |-> api_mode], fp, ft, fault, blocks)]
    /\ UNCHANGED <<tasks, config, textract_processor, local_processor, converter, pc, module,
                   file_path, file_type, file_size, use_textract, trace, result, raised>>

\* the messages an error Document is built for
ErrorMessages == { NoProcessorMessage, "Failed to open file '/data/report.pdf'.", "" }

\* _create_error_document of either module is applied to a message
create_error_document(which, fp, error) ==
    /\ backend_call = IdleCall
    /\ backend_call' =
         [kind |-> "error_document",
          which |-> which,
          doc |-> IF which = "document_processor"
                  THEN _create_error_document(fp, error)
                  ELSE docling_create_error_document(fp, error)]
    /\ UNCHANGED <<tasks, config, textract_processor, local_processor, converter, pc, module,
                   file_path, file_type, file_size, use_textract, trace, result, raised>>

\* one selector with the defaults of config.py, no call in flight
InitBackends ==
    /\ config = [AWS_TEXTRACT_ENABLED |-> FALSE, USE_LOCAL_FALLBACK |-> TRUE,
                 TEXTRACT_API_MODE |-> "analyze",
                 TEXTRACT_MAX_FILE_SIZE_MB |-> TEXTRACT_MAX_FILE_SIZE_MB,
                 TEXTRACT_MAX_PAGES |-> TEXTRACT_MAX_PAGES, ENABLE_PDFPLUMBER |-> TRUE]
    /\ textract_processor = None
    /\ local_processor = [enable_pdfplumber |-> TRUE]
    /\ converter = FALSE
    /\ pc = "idle"
    /\ module = NoneStr
    /\ file_path = None
    /\ file_type = NoneStr
    /\ file_size = NoneInt
    /\ use_textract = FALSE
    /\ trace = <<>>
    /\ result = None
    /\ raised = NoneStr
    /\ backend_call = IdleCall
    /\ tasks = <<>>

NextBackends ==
    \/ /\ backend_call = IdleCall
       /\ \E e \in BOOLEAN, a \in BOOLEAN, pages \in LocalDocuments :
            \E fault \in LocalFaults(pages) :
               local_process_document(e, a, [dir |-> "/data/", base |-> "report.pdf", suffix |-> ".pdf"], pages, fault)
    \/ /\ backend_call = IdleCall
       /\ \E api_mode \in {"analyze", "detect"}, blocks \in BlockLists :
            textract_extract(api_mode, blocks)
    \/ /\ backend_call = IdleCall
       /\ \E api_mode \in {"analyze", "detect"}, fp \in TextractFiles, ft \in TextractFileTypes,
             fault \in TextractFaults, blocks \in TextractResponses :
            textract_process_document(api_mode, fp, ft, fault, blocks)
    \/ /\ backend_call = IdleCall
       /\ \E CHUNK_SIZE \in ChunkSizes, paragraphs \in SeqsUpTo(ParaKinds, MaxParas),
             grids \in {<<>>, <<SampleGrid>>, <<SampleGrid, SampleGrid>>} :
            create_intelligent_chunks(CHUNK_SIZE, paragraphs, grids)
    \/ /\ backend_call = IdleCall
       /\ \E which \in {"document_processor", "docling_processor"}, fp \in FilePaths,
             error \in ErrorMessages :
            create_error_document(which, fp, error)
    \/ backend_call_ends

SpecBackends == InitBackends /\ [][NextBackends]_vars

----------------------------------------------------------------------------
(* Properties of the local backend *)

LocalCall == backend_call.kind = "local"
LocalReturned == LocalCall /\ backend_call.run.outcome.kind = "return"

\* C11 (Table Merge Policy): with S the Local Table Extractor's result and B
\* the built-in tables, the returned Document's tables are S when S is present
\* and non-empty and B otherwise; they never mix the two sources; content,
\* chunks and metadata are those of the built-in extraction.
C11_TableMergePolicy ==
    LocalReturned =>
        LET S == backend_call.run.pdfplumber_tables
            B == backend_call.run.pymupdf_data.tables
            doc == backend_call.run.outcome.doc
        IN /\ (~S.is_none /\ Len(S.list) > 0) => doc.tables = S.list
           /\ (S.is_none \/ Len(S.list) = 0) => doc.tables = B
           /\ \/ \A i \in 1..Len(doc.tables) : "extractor" \in DOMAIN doc.tables[i]
              \/ \A i \in 1..Len(doc.tables) : "extractor" \notin DOMAIN doc.tables[i]
           /\ doc.content = backend_call.run.pymupdf_data.content
           /\ doc.chunks = backend_call.run.pymupdf_data.chunks
           /\ doc.metadata = backend_call.run.pymupdf_data.metadata

\* both detectors found tables, one on one page and two over two pages, and S
\* won as a whole
C11_Witness ==
    /\ LocalReturned
    /\ ~backend_call.run.pdfplumber_tables.is_none
    /\ Len(backend_call.run.pdfplumber_tables.list) = 1
    /\ Len(backend_call.run.pymupdf_data.tables) = 2
    /\ "extractor" \in DOMAIN backend_call.run.outcome.doc.tables[1]
    /\ backend_call.run.outcome.doc.tables = backend_call.run.pdfplumber_tables.list

\* C12 (Local Table Extractor failure): when the extractor is unavailable,
\* disabled, or raises on the document, its result counts as absent and
\* LocalProcessor.process_document still returns a success Document that
\* keeps the built-in tables; nothing is raised to the caller.
C12_TableExtractorFailureAbsorbed ==
    (/\ LocalCall
     /\ backend_call.fault.at \notin {"fitz.open", "get_text"}
     /\ \/ ~backend_call.ENABLE_PDFPLUMBER
        \/ ~backend_call.PDFPLUMBER_AVAILABLE
        \/ backend_call.fault.at \in {"pdfplumber.open", "extract_tables"})
    => /\ backend_call.run.outcome.kind = "return"
       /\ backend_call.run.outcome.doc.success = TRUE
       /\ backend_call.run.pdfplumber_tables.is_none
       /\ backend_call.run.outcome.doc.tables = backend_call.run.pymupdf_data.tables

\* pdfplumber is enabled and installed, raises on a page that holds a grid, and
\* the Document comes back with the built-in table
C12_Witness ==
    /\ LocalReturned
    /\ backend_call.self.enable_pdfplumber
    /\ backend_call.fault.at = "extract_tables"
    /\ \E i \in 1..Len(backend_call.pages) : backend_call.pages[i].pdfplumber_grids # <<>>
    /\ Len(backend_call.run.outcome.doc.tables) = 1
    /\ "extractor" \notin DOMAIN backend_call.run.outcome.doc.tables[1]

----------------------------------------------------------------------------
(* _table_to_markdown on its own *)

\* the widest header, the longest body row and the most body rows rendered
MaxCols == 2
MaxRowLen == 3
MaxRows == 2

\* cell texts as the extractors deliver them: any text of the page, so also
\* one that holds a pipe or a line break
HeaderCells == {"H", "K"}
BodyCells == {"a", "x|y", "p\nq"}

table_to_markdown_call(headers, rows) ==
    /\ backend_call = IdleCall
    /\ backend_call' = [kind |-> "markdown", headers |-> headers, rows |-> rows,
                        markdown |-> _table_to_markdown(headers, rows)]
    /\ UNCHANGED <<tasks, config, textract_processor, local_processor, converter, pc, module,
                   file_path, file_type, file_size, use_textract, trace, result, raised>>

NextMarkdown ==
    \/ /\ backend_call = IdleCall
       /\ \E headers \in SeqsUpTo(HeaderCells, MaxCols) :
            \E rows \in SeqsUpTo(SeqsUpTo(BodyCells, MaxRowLen), MaxRows) :
               table_to_markdown_call(headers, rows)
    \/ backend_call_ends

SpecMarkdown == InitBackends /\ [][NextMarkdown]_vars

RECURSIVE SplitFrom(_, _, _, _)
\* s.split(ch) for a one-character ch, from position i on with the current
\* piece starting at position from
SplitFrom(s, ch, i, from) ==
    IF i > Len(s) THEN << SubSeq(s, from, Len(s)) >>
    ELSE IF SubSeq(s, i, i) = ch
         THEN << SubSeq(s, from, i - 1) >> \o SplitFrom(s, ch, i + 1, i + 1)
         ELSE SplitFrom(s, ch, i + 1, from)

\* the lines of a rendered table, and the pipe-delimited cells of one line
\* (what stands between its first and its last pipe)
LinesOf(md) == IF md = "" THEN <<>> ELSE SplitFrom(md, "\n", 1, 1)
PipeCells(line) ==
    LET parts == SplitFrom(line, "|", 1, 1)
    IN IF Len(parts) < 2 THEN <<>> ELSE SubSeq(parts, 2, Len(parts) - 1)

\* what the claim says of one rendering
RendersExactly(headers, rows, md) ==
    IF headers = <<>> THEN md = ""
    ELSE LET lines == LinesOf(md)
         IN /\ Len(lines) = Len(rows) + 2
            /\ \A r \in 1..Len(rows) :
                 LET cells == PipeCells(lines[r + 2])
                 IN /\ Len(cells) = Len(headers)
                    /\ \A c \in 1..Len(headers) :
                         cells[c] = " " \o (IF c <= Len(rows[r]) THEN rows[r][c] ELSE "") \o " "

\* C13 (table rendering): for every header and every list of body rows, each
\* rendered body row has exactly len(header) cells (short rows padded with
\* empty strings, long rows truncated), the output has len(rows)+2 lines, and
\* an empty header renders to the empty string.
C13_TableRendering ==
    backend_call.kind = "markdown" =>
        RendersExactly(backend_call.headers, backend_call.rows, backend_call.markdown)

\* a cell text without pipe and without line break
PlainCell(text) == \A i \in 1..Len(text) : SubSeq(text, i, i) \notin {"|", "\n"}

\* the rendering is exact whenever the cells that are rendered are plain
C13_PlainCellsRenderExactly ==
    (/\ backend_call.kind = "markdown"
     /\ \A r \in 1..Len(backend_call.rows) :
          \A c \in 1..Len(backend_call.rows[r]) :
             c <= Len(backend_call.headers) => PlainCell(backend_call.rows[r][c]))
    => RendersExactly(backend_call.headers, backend_call.rows, backend_call.markdown)

----------------------------------------------------------------------------
(* Properties of the chunks of every backend *)

\* the chunks the operation just run has produced
ChunksOfCall ==
    CASE backend_call.kind = "local" ->
            IF backend_call.run.outcome.kind = "return"
            THEN backend_call.run.outcome.doc.chunks ELSE <<>>
      [] backend_call.kind \in {"textract", "error_document"} -> backend_call.doc.chunks
      [] backend_call.kind = "chunker" -> backend_call.chunks
      [] OTHER -> <<>>

\* C14 (chunk offsets and identifiers): every chunk has startIndex >= 0 and
\* endIndex >= startIndex, and in a successfully processed Document the i-th
\* chunk emitted carries the identifier chunk-(i-1): numbering starts at 0 and
\* has no gap and no repetition, whatever pages or paragraphs yielded no chunk.
C14_ChunkOffsetsAndIds ==
    \A i \in 1..Len(ChunksOfCall) :
        /\ ChunksOfCall[i].startIndex >= 0
        /\ ChunksOfCall[i].endIndex >= ChunksOfCall[i].startIndex
        /\ backend_call.kind # "error_document" =>
              ChunksOfCall[i].id = "chunk-" \o NumStr(i - 1)

\* a response whose first page holds only a blank line: the chunk of page 2
\* is chunk-0
C14_Witness ==
    /\ backend_call.kind = "textract"
    /\ Len(ChunksOfCall) = 1
    /\ ChunksOfCall[1].metadata.pageNumber = 2
    /\ ChunksOfCall[1].id = "chunk-0"
    /\ \E i \in 1..Len(backend_call.blocks) :
          backend_call.blocks[i].BlockType = "LINE" /\ backend_call.blocks[i].Page = 1

\* C15 (chunk types): every chunk has a type in {paragraph, table, error}, and
\* the per-page chunks of the Local Text Extractor and of the cloud Block
\* Graph Parser have type 'paragraph'.
C15_ChunkTypes ==
    \A i \in 1..Len(ChunksOfCall) :
        /\ ChunksOfCall[i].type \in {"paragraph", "table", "error"}
        /\ backend_call.kind \in {"local", "textract"} => ChunksOfCall[i].type = "paragraph"

----------------------------------------------------------------------------
(* The local path end to end, and its handles *)

\* C16 (local path end to end): a 2-page document whose page 1 yields text
\* only and whose page 2 yields one 2x2 table produces a Document with
\* metadata.pageCount = 2, exactly one chunk of type 'table', and exactly one
\* Table whose body has exactly one row.
C16_LocalEndToEnd ==
    (/\ LocalReturned
     /\ Len(backend_call.pages) = 2
     /\ backend_call.pages[1].words # <<>>
     /\ backend_call.pages[1].pymupdf_grids = <<>>
     /\ backend_call.pages[1].pdfplumber_grids = <<>>
     /\ backend_call.pages[2].pymupdf_grids = <<SampleGrid>>
     /\ backend_call.pages[2].pdfplumber_grids = <<SampleGrid>>)
    => LET doc == backend_call.run.outcome.doc
       IN /\ doc.metadata.pageCount = 2
          /\ Cardinality({ i \in 1..Len(doc.chunks) : doc.chunks[i].type = "table" }) = 1
          /\ Len(doc.tables) = 1
          /\ Len(doc.tables[1].rows) = 1

\* what does hold for such a document: two pages, one Table with one body
\* row, and no chunk of type 'table'
C16_LocalEndToEndWithoutTableChunk ==
    (/\ LocalReturned
     /\ Len(backend_call.pages) = 2
     /\ backend_call.pages[1].words # <<>>
     /\ backend_call.pages[1].pymupdf_grids = <<>>
     /\ backend_call.pages[1].pdfplumber_grids = <<>>
     /\ backend_call.pages[2].pymupdf_grids = <<SampleGrid>>
     /\ backend_call.pages[2].pdfplumber_grids = <<SampleGrid>>)
    => LET doc == backend_call.run.outcome.doc
       IN /\ doc.metadata.pageCount = 2
          /\ \A i \in 1..Len(doc.chunks) : doc.chunks[i].type # "table"
          /\ Len(doc.tables) = 1
          /\ Len(doc.tables[1].rows) = 1

\* C17 (handles): whenever LocalProcessor.process_document hands control back,
\* by returning or by raising, no handle opened by the Local Text Extractor
\* (fitz) or by the Local Table Extractor (pdfplumber) is still open.
C17_HandlesClosed ==
    LocalCall => /\ backend_call.run.fitz_handle # "open"
                 /\ backend_call.run.pdfplumber_handle # "open"

\* the handles are closed on every path on which the page loop does not raise
C17_HandlesClosedUnlessPageRaises ==
    (LocalCall /\ backend_call.fault.at # "get_text")
    => /\ backend_call.run.fitz_handle # "open"
       /\ backend_call.run.pdfplumber_handle # "open"

----------------------------------------------------------------------------
(* Properties of the Block Graph Parser *)

TextractCall == backend_call.kind = "textract"

\* the CELL blocks a TABLE block's CHILD relationships name
ResolvableCells(table_block, blocks) ==
    LET rels == RelationshipsOf(table_block)
        child_ids == UNION { { rels[n].Ids[i] : i \in 1..Len(rels[n].Ids) } :
                             n \in { m \in 1..Len(rels) : rels[m].Type = "CHILD" } }
    IN { blocks[n] : n \in { m \in 1..Len(blocks) :
                               blocks[m].BlockType = "CELL" /\ blocks[m].Id \in child_ids } }

\* C19 (grid reconstruction): for a TABLE block with at least one resolvable
\* CELL child the grid has max(RowIndex) rows of max(ColumnIndex) columns, the
\* position (RowIndex-1, ColumnIndex-1) of a cell holds that cell's text,
\* every position without a cell holds "", row 0 is the header and the other
\* rows are the body; no row beyond the largest RowIndex exists.
C19_GridReconstruction ==
    TextractCall =>
        \A k \in 1..Len(backend_call.parsed) :
            LET cells == ResolvableCells(TableBlocksOf(backend_call.blocks)[k], backend_call.blocks)
                table_data == backend_call.parsed[k]
            IN cells # {} =>
                 /\ table_data # None
                 /\ LET grid == <<table_data.headers>> \o table_data.rows
                    IN /\ Len(grid) = Max({ b.RowIndex : b \in cells })
                       /\ Len(table_data.rows) = Max({ b.RowIndex : b \in cells }) - 1
                       /\ \A r \in 1..Len(grid) :
                            /\ Len(grid[r]) = Max({ b.ColumnIndex : b \in cells })
                            /\ \A c \in 1..Len(grid[r]) :
                                 LET at == { b \in cells : b.RowIndex = r /\ b.ColumnIndex = c }
                                 IN IF at = {} THEN grid[r][c] = ""
                                    ELSE grid[r][c] \in { _get_cell_text(b, backend_call.blocks) :
                                                          b \in at }

\* a TABLE whose only cells are (1,1) and (1,2): a 2-cell header, no body
C19_Witness ==
    /\ TextractCall
    /\ Len(backend_call.parsed) = 1
    /\ { <<b.RowIndex, b.ColumnIndex>> :
           b \in ResolvableCells(TableBlocksOf(backend_call.blocks)[1], backend_call.blocks) }
         = { <<1, 1>>, <<1, 2>> }
    /\ backend_call.parsed[1] = [headers |-> <<"Q1", "Net income">>, rows |-> <<>>]

\* C20 (dropped TABLE blocks): a TABLE block yields no Table exactly when it
\* has no CHILD relationship or none of its children resolves to a CELL block;
\* every other TABLE block yields exactly one Table, so the Tables emitted are
\* as many as the TABLE blocks that have a cell.
C20_TableDroppedIffNoCells ==
    (TextractCall /\ backend_call.api_mode = "analyze") =>
        LET table_blocks == TableBlocksOf(backend_call.blocks)
            has_cells(k) == ResolvableCells(table_blocks[k], backend_call.blocks) # {}
            emitted(k) == { j \in 1..Len(backend_call.doc.tables) :
                              backend_call.doc.tables[j].id = "table-" \o NumStr(k - 1) }
        IN /\ \A k \in 1..Len(table_blocks) :
                /\ (backend_call.parsed[k] = None) <=> ~has_cells(k)
                /\ Cardinality(emitted(k)) = IF has_cells(k) THEN 1 ELSE 0
           /\ Len(backend_call.doc.tables)
                = Cardinality({ k \in 1..Len(table_blocks) : has_cells(k) })

\* of two TABLE blocks the first names no CELL and is dropped, the second is
\* emitted
C20_Witness ==
    /\ TextractCall
    /\ backend_call.api_mode = "analyze"
    /\ Len(backend_call.parsed) = 2
    /\ RelationshipsOf(TableBlocksOf(backend_call.blocks)[1]) # <<>>
    /\ ResolvableCells(TableBlocksOf(backend_call.blocks)[1], backend_call.blocks) = {}
    /\ Len(backend_call.doc.tables) = 1
    /\ backend_call.doc.tables[1].id = "table-1"

----------------------------------------------------------------------------
(* Two process_document coroutines of one DocumentProcessor, gathered.  A    *)
(* coroutine runs up to its next await; the event loop may then resume      *)
(* either.  tasks holds the arguments of the calls, the file system they    *)
(* read and the frame (the locals and the position) of each coroutine.      *)

\* the two documents of the concurrent calls and their declared types
ConcurrentArgs ==
    << [file_path |-> [dir |-> "/tmp/", base |-> "report.pdf", suffix |-> ".pdf"],
        file_type |-> "application/pdf"],
       [file_path |-> [dir |-> "/tmp/", base |-> "notes.txt", suffix |-> ".txt"],
        file_type |-> "text/plain"] >>

\* what the environment holds for one path: the size os.path.getsize answers
\* (or OSError), and whether Textract and the local libraries can process it
FileStates(cls) ==
    [getsize : { g \in GetSizeResults(cls) :
                   g.size \in {NoneInt, 0, cls.TEXTRACT_MAX_FILE_SIZE_MB * BytesPerMB + 1} },
     textract_fails : BOOLEAN,
     local_fails : BOOLEAN]

\* the content of a path: report.pdf has one page, notes.txt two
PagesAt(fp) == IF fp.base = "report.pdf" THEN 1 ELSE 2

\* await self.textract_processor.process_document(fp, ft), for the file as it is
TextractOutcome(self, fp, ft, file) ==
    IF ~_is_supported_format(fp, ft)
    THEN Raised("Format not supported by Textract: " \o ft
                \o ". Supported: PDF, PNG, JPG, TIFF")
    ELSE IF file.textract_fails
    THEN Raised("Textract API error: " \o "ThrottlingException" \o " - " \o "Rate exceeded")
    ELSE Returned(TextractDocument(self.textract_processor, fp, ft, ResponseOfPages(PagesAt(fp))))

\* await self.local_processor.process_document(fp, ft), for the file as it is
LocalOutcome(self, fp, ft, file) ==
    IF file.local_fails
    THEN Raised("Failed to open file '" \o fp.dir \o fp.base \o "'.")
    ELSE Returned(LocalDocument(self.local_processor, fp, ft,
                                LocalPagesOf(PagesAt(fp), <<SampleGrid>>), TRUE))

\* the frame of a process_document call that has not run yet
StartFrame(args) ==
    [file_path |-> args.file_path, file_type |-> args.file_type, pc |-> "start",
     result |-> None, raised |-> NoneStr]

\* one coroutine from where it stands to its next await or to its end; it
\* reads self, its own frame and the files
TaskStep(self, frame, files) ==
    LET fp == frame.file_path
        ft == frame.file_type
        error(msg) == [frame EXCEPT !.pc = "done", !.result = _create_error_document(fp, msg)]
        return(doc) == [frame EXCEPT !.pc = "done", !.result = doc]
    IN CASE frame.pc = "start" ->
              IF ~files[fp.base].getsize.ok
              THEN [frame EXCEPT !.pc = "done", !.raised = OSError]
              ELSE LET use == _should_use_textract(self.textract_processor, self.config,
                                                   files[fp.base].getsize.size)
                       first == first_backend(use, self.textract_processor, self.local_processor)
                   IN CASE first = "textract" -> [frame EXCEPT !.pc = "await_textract"]
                        [] first = "local" -> [frame EXCEPT !.pc = "await_local"]
                        [] OTHER -> error(NoProcessorMessage)
         [] frame.pc = "await_textract" ->
              LET o == TextractOutcome(self, fp, ft, files[fp.base])
                  next == after_textract_exception(self.config, self.local_processor)
              IN IF o.kind = "return" THEN return(o.doc)
                 ELSE CASE next = "reraise" -> error(o.msg)
                        [] next = "local" -> [frame EXCEPT !.pc = "await_local"]
                        [] OTHER -> error(NoProcessorMessage)
         [] frame.pc = "await_local" ->
              LET o == LocalOutcome(self, fp, ft, files[fp.base])
              IN IF o.kind = "return" THEN return(o.doc) ELSE error(o.msg)
         [] OTHER -> frame

RECURSIVE RunAlone(_, _, _)
\* the call run by itself from a frame to its end
RunAlone(self, frame, files) ==
    IF frame.pc = "done" THEN frame ELSE RunAlone(self, TaskStep(self, frame, files), files)

\* the processor the coroutines share
Self == [config |-> config, textract_processor |-> textract_processor,
         local_processor |-> local_processor]

\* asyncio.gather of the two calls: both coroutines are created, none has run
gather(files) ==
    /\ tasks = <<>>
    /\ tasks' = << [args |-> ConcurrentArgs, files |-> files,
                    frames |-> [i \in 1..Len(ConcurrentArgs) |-> StartFrame(ConcurrentArgs[i])]] >>
    /\ UNCHANGED <<backend_call, config, textract_processor, local_processor, converter, pc,
                   module, file_path, file_type, file_size, use_textract, trace, result, raised>>

\* a plausible slip: the path of the document kept on the processor
\* (self.current_file = file_path), so that a resumed coroutine goes on with
\* the path the other call has stored there
task_step_shared_path(i) ==
    /\ tasks # <<>>
    /\ tasks[1].frames[i].pc # "done"
    /\ LET j == CHOOSE k \in 1..Len(tasks[1].frames) : k # i
           seen == [tasks[1].frames[i] EXCEPT !.file_path = tasks[1].frames[j].file_path]
       IN tasks' = << [tasks[1] EXCEPT !.frames[i] = TaskStep(Self, seen, tasks[1].files)] >>
    /\ UNCHANGED <<backend_call, config, textract_processor, local_processor, converter, pc,
                   module, file_path, file_type, file_size, use_textract, trace, result, raised>>

\* the event loop resumes coroutine i, which runs to its next await
task_step(i) ==
    /\ tasks # <<>>
    /\ tasks[1].frames[i].pc # "done"
    /\ tasks' = << [tasks[1] EXCEPT !.frames[i] = TaskStep(Self, @, tasks[1].files)] >>
    /\ UNCHANGED <<backend_call, config, textract_processor, local_processor, converter, pc,
                   module, file_path, file_type, file_size, use_textract, trace, result, raised>>

\* gather has collected both outcomes
gather_ends ==
    /\ tasks # <<>>
    /\ \A i \in 1..Len(tasks[1].frames) : tasks[1].frames[i].pc = "done"
    /\ tasks' = <<>>
    /\ UNCHANGED <<backend_call, config, textract_processor, local_processor, converter, pc,
                   module, file_path, file_type, file_size, use_textract, trace, result, raised>>

\* a processor constructed from a configuration with the default limits
InitConcurrent ==
    /\ config \in { c \in ProcessorConfig :
                      /\ c.TEXTRACT_MAX_FILE_SIZE_MB = TEXTRACT_MAX_FILE_SIZE_MB
                      /\ c.TEXTRACT_API_MODE = "analyze"
                      /\ c.ENABLE_PDFPLUMBER }
    /\ \E textract_init_ok \in BOOLEAN :
          LET self == _initialize_processors(config, textract_init_ok, TRUE)
          IN /\ textract_processor = self.textract_processor
             /\ local_processor = self.local_processor
    /\ converter = FALSE
    /\ pc = "idle"
    /\ module = NoneStr
    /\ file_path = None
    /\ file_type = NoneStr
    /\ file_size = NoneInt
    /\ use_textract = FALSE
    /\ trace = <<>>
    /\ result = None
    /\ raised = NoneStr
    /\ backend_call = IdleCall
    /\ tasks = <<>>

NextConcurrent ==
    \/ /\ tasks = <<>>
       /\ \E files \in [{"report.pdf", "notes.txt"} -> FileStates(config)] : gather(files)
    \/ /\ tasks # <<>>
       /\ \E i \in 1..Len(ConcurrentArgs) : task_step(i)
    \/ gather_ends

SpecConcurrent == InitConcurrent /\ [][NextConcurrent]_vars

\* C18 (concurrent calls are independent): under every interleaving of the
\* two coroutines at their await points, a call that has ended has the
\* outcome it has when run alone on the same processor and files; no step
\* writes the processor, and a step of one call leaves the other call's frame
\* as it was.
C18_ConcurrentCallsIndependent ==
    /\ [](tasks # <<>> =>
            \A i \in 1..Len(tasks[1].frames) :
               tasks[1].frames[i].pc = "done" =>
                  LET alone == RunAlone(Self, StartFrame(tasks[1].args[i]), tasks[1].files)
                  IN /\ tasks[1].frames[i].result = alone.result
                     /\ tasks[1].frames[i].raised = alone.raised)
    /\ [][/\ <<config, textract_processor, local_processor>>'
               = <<config, textract_processor, local_processor>>
          /\ (tasks # <<>> /\ tasks' # <<>>) =>
                Cardinality({ i \in 1..Len(tasks[1].frames) :
                                tasks'[1].frames[i] # tasks[1].frames[i] }) <= 1]_vars

\* the two calls interleave: the call for notes.txt has ended with its own
\* Document while the call for report.pdf is suspended at its Textract await
C18_Witness ==
    /\ tasks # <<>>
    /\ tasks[1].frames[1].pc = "await_textract"
    /\ tasks[1].frames[2].pc = "done"
    /\ tasks[1].frames[2].result # None
    /\ tasks[1].frames[2].result.success = TRUE
    /\ tasks[1].frames[2].result.fileName = "notes.txt"

----------------------------------------------------------------------------
(* Arrival order of the blocks *)

\* the rearrangements of a sequence
Orderings(seq) ==
    { [i \in 1..Len(seq) |-> seq[f[i]]] :
        f \in { g \in [1..Len(seq) -> 1..Len(seq)] :
                  \A i, j \in 1..Len(seq) : g[i] = g[j] => i = j } }

\* a list of blocks reversed, and rotated by every offset
Rearranged(blocks) ==
    { [i \in 1..Len(blocks) |-> blocks[Len(blocks) + 1 - i]] }
    \cup { [i \in 1..Len(blocks) |-> blocks[((i - 1 + d) % Len(blocks)) + 1]] :
             d \in 0..Len(blocks) - 1 }

\* a TABLE block with the Ids of its CHILD relationships rearranged
ChildIdsRearranged(table_block) ==
    IF "Relationships" \notin DOMAIN table_block THEN {table_block}
    ELSE LET rels == table_block.Relationships
             at == { n \in 1..Len(rels) : rels[n].Type = "CHILD" }
         IN IF at = {} THEN {table_block}
            ELSE LET n == CHOOSE m \in at : TRUE
                 IN { [table_block EXCEPT !.Relationships[n].Ids = ids] :
                        ids \in Orderings(rels[n].Ids) }

\* no two CELL children of the TABLE block name the same grid position
DistinctPositions(table_block, blocks) ==
    \A b1, b2 \in ResolvableCells(table_block, blocks) :
        (b1.RowIndex = b2.RowIndex /\ b1.ColumnIndex = b2.ColumnIndex) => b1 = b2

C21_OrderIndependentAlsoWithClashes ==
    TextractCall =>
        \A k \in 1..Len(backend_call.parsed) :
            \A t \in ChildIdsRearranged(TableBlocksOf(backend_call.blocks)[k]) :
                _parse_table_block(t, backend_call.blocks) = backend_call.parsed[k]

----------------------------------------------------------------------------
(* The full text of the cloud backend *)

\* the LINE blocks of a response, in the order returned
LineBlocksOf(blocks) == SelectSeq(blocks, LAMBDA b : b.BlockType = "LINE")

\* C22 as stated: the full text has one line per LINE block, the block's
\* Text, in the order the blocks were returned, and nothing else.
C22_FullTextEveryLine ==
    TextractCall =>
        LinesOf(backend_call.doc.content)
          = [i \in 1..Len(LineBlocksOf(backend_call.blocks)) |->
               BlockText(LineBlocksOf(backend_call.blocks)[i])]

\* C22 (full text of the cloud backend): the full text is the newline-join of
\* the stripped Text of every LINE block whose Text is not blank, in the order
\* the blocks were returned and without re-sorting; a LINE block with blank
\* Text and blocks of other types contribute nothing.
C22_FullTextNonBlankLines ==
    TextractCall =>
        LET kept == SelectSeq(LineBlocksOf(backend_call.blocks), LAMBDA b : b.Text # <<>>)
        IN LinesOf(backend_call.doc.content) = [i \in 1..Len(kept) |-> BlockText(kept[i])]

\* a line of page 2 returned before a blank line and a line of page 1: two
\* lines of text, page 2 first
C22_Witness ==
    /\ TextractCall
    /\ Len(backend_call.blocks) = 3
    /\ backend_call.blocks[1].BlockType = "LINE"
    /\ backend_call.blocks[1].Page = 2
    /\ backend_call.blocks[2].Text = <<>>
    /\ backend_call.blocks[3].Page = 1
    /\ backend_call.doc.content = "Revenue\nNet income"

----------------------------------------------------------------------------
(* The format check of the cloud backend *)

TextractProcessCall == backend_call.kind = "textract_process"

\* C23 (unsupported format rejected before the API): a file that is none of
\* PDF, PNG, JPEG, TIFF by its declared MIME type or by its extension makes the
\* call raise the format error with neither detect_document_text nor
\* analyze_document called, and without the file being read; the outcomes of
\* the call are those the selector reckons with.
C23_UnsupportedRejectedBeforeApi ==
    TextractProcessCall =>
        /\ (/\ backend_call.file_type \notin {"application/pdf", "image/png", "image/jpeg",
                                               "image/jpg", "image/tiff"}
            /\ backend_call.file_path.suffix \notin {".pdf", ".png", ".jpg", ".jpeg",
                                                      ".tiff", ".tif"})
           => /\ backend_call.run.api_calls = <<>>
              /\ ~backend_call.run.file_read
              /\ backend_call.run.outcome
                   = Raised("Format not supported by Textract: " \o backend_call.file_type
                            \o ". Supported: PDF, PNG, JPG, TIFF")
        /\ backend_call.run.outcome
             \in TextractProcessor_process_document([api_mode |-> backend_call.api_mode],
                                                    backend_call.file_path, backend_call.file_type)

\* a Word file declared as a byte stream is refused although nothing else is
\* wrong with the call
C23_Witness ==
    /\ TextractProcessCall
    /\ backend_call.file_path.base = "memo.docx"
    /\ backend_call.file_type = "application/octet-stream"
    /\ backend_call.fault = "none"
    /\ backend_call.run.api_calls = <<>>
    /\ backend_call.run.outcome.kind = "raise"

\* a file whose upper-case extension is supported is sent to the API whatever
\* type was declared for it
C23_SupportedReachesApi ==
    (/\ TextractProcessCall
     /\ \/ backend_call.file_type \in {"application/pdf", "image/png", "image/jpeg",
                                        "image/jpg", "image/tiff"}
        \/ backend_call.file_path.suffix \in {".pdf", ".png", ".jpg", ".jpeg", ".tiff", ".tif"}
     /\ backend_call.fault # "open")
    => Len(backend_call.run.api_calls) = 1

----------------------------------------------------------------------------
(* Chunk offsets of the local backend *)

RECURSIVE RunningText(_, _)
\* full_text of _process_with_pymupdf once pages 1..n have been processed
RunningText(pages, n) ==
    IF n = 0 THEN ""
    ELSE IF StripText(pages[n]) = "" THEN RunningText(pages, n - 1)
    ELSE RunningText(pages, n - 1) \o "\n--- Page " \o NumStr(n) \o " ---\n"
           \o RawText(pages[n]) \o "\n"

\* the page chunks of the Document a local call returned
PageChunksOfCall ==
    SelectSeq(backend_call.run.outcome.doc.chunks, LAMBDA c : c.type = "page")

\* C24 (local offsets cumulative and exact): for each page with non-empty
\* text, the chunk's startIndex is the length of the running full text before
\* the page was appended and its endIndex the length after it was appended.
C24_LocalOffsetsExact ==
    LocalReturned =>
        \A i \in 1..Len(PageChunksOfCall) :
            LET c == PageChunksOfCall[i]
                n == c.metadata.pageNumber
            IN /\ c.startIndex = Len(RunningText(backend_call.pages, n - 1))
               /\ c.endIndex = Len(RunningText(backend_call.pages, n))

\* what the code computes: endIndex is the length of the running full text
\* after the page was appended, and startIndex is endIndex less the length of
\* the page's raw text, which lies one past the place where that text begins
\* (the page section ends with one more newline) and past the page marker
C24_LocalEndOffsetsExact ==
    LocalReturned =>
        \A i \in 1..Len(PageChunksOfCall) :
            LET c == PageChunksOfCall[i]
                n == c.metadata.pageNumber
            IN /\ c.endIndex = Len(RunningText(backend_call.pages, n))
               /\ c.startIndex = c.endIndex - Len(RawText(backend_call.pages[n]))
               /\ c.startIndex = Len(RunningText(backend_call.pages, n - 1))
                                   + Len("\n--- Page " \o NumStr(n) \o " ---\n") + 1

----------------------------------------------------------------------------
(* The chunker: tables apart from prose *)

ChunkerCall == backend_call.kind = "chunker"

RECURSIVE NewlinesBefore(_, _)
\* how many newlines stand directly before position i of s
NewlinesBefore(s, i) ==
    IF i > 1 /\ SubSeq(s, i - 1, i - 1) = "\n" THEN 1 + NewlinesBefore(s, i - 1) ELSE 0

\* where content.split('\n\n') cuts: the pairs of newlines, taken from the left
SeparatorStarts(s) ==
    { i \in 1..(Len(s) - 1) : SubSeq(s, i, i + 1) = "\n\n" /\ NewlinesBefore(s, i) % 2 = 0 }

\* content.split('\n\n')
SplitBlankLines(s) ==
    LET starts == SeparatorStarts(s)
        n == Cardinality(starts)
        nth(k) == CHOOSE x \in starts : Cardinality({ y \in starts : y < x }) = k - 1
    IN [k \in 1..(n + 1) |->
          SubSeq(s, IF k = 1 THEN 1 ELSE nth(k - 1) + 2, IF k = n + 1 THEN Len(s) ELSE nth(k) - 1)]

RECURSIVE LeadingWhitespace(_, _)
\* how many whitespace characters s has from position i on before another one
LeadingWhitespace(s, i) ==
    IF i <= Len(s) /\ SubSeq(s, i, i) \in {" ", "\n", "\t"} THEN 1 + LeadingWhitespace(s, i + 1) ELSE 0

RECURSIVE TrailingWhitespace(_, _)
\* how many whitespace characters s has up to position i after another one
TrailingWhitespace(s, i) ==
    IF i >= 1 /\ SubSeq(s, i, i) \in {" ", "\n", "\t"} THEN 1 + TrailingWhitespace(s, i - 1) ELSE 0

\* s.strip()
Strip(s) ==
    IF LeadingWhitespace(s, 1) = Len(s) THEN ""
    ELSE SubSeq(s, LeadingWhitespace(s, 1) + 1, Len(s) - TrailingWhitespace(s, Len(s)))

\* para.startswith('|')
StartsWithPipe(text) == text # "" /\ SubSeq(text, 1, 1) = "|"

\* the paragraphs the loop of _create_intelligent_chunks works on: the pieces
\* of content.split('\n\n'), stripped, the empty ones skipped
ParagraphsOfContent(content) ==
    LET pieces == SplitBlankLines(content)
    IN SelectSeq([k \in 1..Len(pieces) |->
                    [text |-> Strip(pieces[k]), is_table |-> StartsWithPipe(Strip(pieces[k]))]],
                 LAMBDA para : para.text # "")

RECURSIVE Concat(_)
\* the sequences of a sequence, one after the other
Concat(seqs) == IF seqs = <<>> THEN <<>> ELSE Head(seqs) \o Concat(Tail(seqs))

\* the paragraphs a chunk holds: a table chunk is one paragraph, a paragraph
\* chunk holds the paragraphs of the buffer it was flushed from
ParagraphTextsOf(chunk) ==
    IF chunk.type = "table" THEN << chunk.content >>
    ELSE LET paras == ParagraphsOfContent(chunk.content)
         IN [k \in 1..Len(paras) |-> paras[k].text]

\* the non-empty paragraphs of the call, in order
ParagraphTextsOfCall ==
    LET paras == SelectSeq(backend_call.paragraphs, LAMBDA para : para.text # "")
    IN [k \in 1..Len(paras) |-> paras[k].text]

\* C25 (table isolation): every paragraph that begins with '|' is a 'table'
\* chunk of its own whose content is exactly the paragraph; no 'paragraph'
\* chunk holds a paragraph that begins with '|'; the chunks, read one after the
\* other, hold the non-empty paragraphs in input order, none lost or repeated
\* (so the buffer was flushed before the table and was empty after it).
C25_TableIsolation ==
    ChunkerCall =>
        LET chunks == backend_call.chunks
        IN /\ Concat([i \in 1..Len(chunks) |-> ParagraphTextsOf(chunks[i])]) = ParagraphTextsOfCall
           /\ \A i \in 1..Len(chunks) :
                 /\ chunks[i].type \in {"paragraph", "table"}
                 /\ chunks[i].type = "table" => StartsWithPipe(chunks[i].content)
                 /\ chunks[i].type = "paragraph" =>
                       /\ ParagraphTextsOf(chunks[i]) # <<>>
                       /\ \A k \in 1..Len(ParagraphTextsOf(chunks[i])) :
                             ~StartsWithPipe(ParagraphTextsOf(chunks[i])[k])

\* prose, a table, prose: three chunks, the table apart
C25_Witness ==
    /\ ChunkerCall
    /\ Len(backend_call.paragraphs) = 3
    /\ backend_call.paragraphs[1].text = "Annual report"
    /\ StartsWithPipe(backend_call.paragraphs[2].text)
    /\ backend_call.paragraphs[3].text = "Annual report"
    /\ Len(backend_call.chunks) = 3
    /\ backend_call.chunks[1].type = "paragraph"
    /\ backend_call.chunks[2].type = "table"
    /\ backend_call.chunks[2].content = backend_call.paragraphs[2].text
    /\ backend_call.chunks[3].type = "paragraph"

----------------------------------------------------------------------------
(* The chunker: the size boundary *)

\* what the claim says of the chunks of a call for a threshold: a chunk that
\* paragraphs were accumulated into is no longer than the threshold, and a
\* buffer was flushed for its size only when the next paragraph would have
\* made it exceed the threshold
FlushedAtThreshold(chunks, threshold) ==
    /\ \A i \in 1..Len(chunks) :
          (chunks[i].type = "paragraph" /\ Len(ParagraphTextsOf(chunks[i])) > 1)
             => Len(chunks[i].content) <= threshold
    /\ \A i \in 1..(Len(chunks) - 1) :
          (chunks[i].type = "paragraph" /\ chunks[i + 1].type = "paragraph")
             => Len(chunks[i].content) + 2 + Len(ParagraphTextsOf(chunks[i + 1])[1]) > threshold

\* C26 (size boundary): whenever accumulating a paragraph would make the
\* buffer exceed the configured character threshold (default 1500) the buffer
\* is flushed as a 'paragraph' chunk before the paragraph is added, so a chunk
\* that a paragraph was accumulated into is at most the configured threshold
\* long, and paragraphs that reach the threshold exactly are not flushed late.
C26_SizeBoundary ==
    ChunkerCall => FlushedAtThreshold(backend_call.chunks, backend_call.CHUNK_SIZE)

\* what the code keeps: the boundary lies at 1500 characters whatever
\* CHUNK_SIZE is configured
C26_SizeBoundaryAtFixedThreshold ==
    ChunkerCall => FlushedAtThreshold(backend_call.chunks, CHUNK_THRESHOLD)

\* two paragraphs that reach 1500 characters exactly stay in one chunk
C26_ExactBoundaryReached ==
    /\ ChunkerCall
    /\ Len(backend_call.chunks) = 1
    /\ Len(backend_call.chunks[1].content) = CHUNK_THRESHOLD
    /\ Len(ParagraphTextsOf(backend_call.chunks[1])) = 2

----------------------------------------------------------------------------
(* The chunker: offsets *)

\* the length of a chunk's raw content before any strip: a paragraph chunk is
\* the buffer, each of its paragraphs followed by a blank line; a table chunk
\* is the paragraph itself
RawLength(chunk) ==
    IF chunk.type = "table" THEN Len(chunk.content)
    ELSE SumLen(ParagraphTextsOf(chunk)) + 2 * Len(ParagraphTextsOf(chunk))

RECURSIVE RawLengthUpTo(_, _)
\* the raw length of the first n chunks together
RawLengthUpTo(chunks, n) ==
    IF n = 0 THEN 0 ELSE RawLengthUpTo(chunks, n - 1) + RawLength(chunks[n])

\* C27 (chunker offsets): the first chunk starts at 0, every chunk starts
\* where the one before it ended, which is the cumulative raw length of the
\* chunks emitted before it, and endIndex = startIndex + the length of the
\* chunk's raw, pre-strip content, for paragraph and table chunks alike.
C27_ChunkerOffsets ==
    ChunkerCall =>
        LET chunks == backend_call.chunks
        IN \A i \in 1..Len(chunks) :
              /\ i = 1 => chunks[i].startIndex = 0
              /\ i > 1 => chunks[i].startIndex = chunks[i - 1].endIndex
              /\ chunks[i].startIndex = RawLengthUpTo(chunks, i - 1)
              /\ chunks[i].endIndex = chunks[i].startIndex + RawLength(chunks[i])

\* prose, then a table, then prose: the table starts at 15, the length of
\* "Annual report" and its blank line
C27_Witness ==
    /\ ChunkerCall
    /\ Len(backend_call.chunks) = 3
    /\ backend_call.chunks[1].type = "paragraph"
    /\ backend_call.chunks[1].content = "Annual report"
    /\ backend_call.chunks[1].endIndex = 15
    /\ backend_call.chunks[2].type = "table"
    /\ backend_call.chunks[2].startIndex = 15
    /\ backend_call.chunks[3].type = "paragraph"
    /\ backend_call.chunks[3].startIndex = 15 + Len(backend_call.chunks[2].content)
    /\ backend_call.chunks[3].endIndex
         = backend_call.chunks[3].startIndex + Len(backend_call.chunks[3].content) + 2

----------------------------------------------------------------------------
(* The chunker: a second run on its own output *)

\* the chunks put together again: every chunk's content, paragraph or table,
\* apart from the next by a blank line
Reconcatenated(chunks) ==
    JoinStr([i \in 1..Len(chunks) |-> chunks[i].content], "\n\n")

\* the types of a sequence of chunks
ChunkTypes(chunks) == [i \in 1..Len(chunks) |-> chunks[i].type]

\* C28 (chunker idempotence): running the chunker again on its own output put
\* together again (paragraph chunks joined by blank lines, table chunks kept
\* standalone) gives the same sequence of chunk types as the first run.
C28_ChunkerIdempotent ==
    ChunkerCall =>
        ChunkTypes(_create_intelligent_chunks(
                       ParagraphsOfContent(Reconcatenated(backend_call.chunks)),
                       backend_call.tables))
          = ChunkTypes(backend_call.chunks)

\* a first run that flushed for size and for a table: long prose, long prose,
\* a table give paragraph, paragraph, table
C28_Witness ==
    /\ ChunkerCall
    /\ Len(backend_call.paragraphs) = 3
    /\ ChunkTypes(backend_call.chunks) = <<"paragraph", "paragraph", "table">>
    /\ Len(backend_call.chunks[1].content) > CHUNK_THRESHOLD \div 2
    /\ Len(ParagraphsOfContent(Reconcatenated(backend_call.chunks))) = 3

----------------------------------------------------------------------------
(* Table identifiers *)

\* the tables of the Document the operation returned, if it returned one
TablesOfCall ==
    CASE backend_call.kind \in {"local", "textract_process"} ->
            IF backend_call.run.outcome.kind = "return"
            THEN backend_call.run.outcome.doc.tables ELSE <<>>
      [] backend_call.kind \in {"textract", "error_document"} -> backend_call.doc.tables
      [] backend_call.kind = "chunker" -> backend_call.tables
      [] OTHER -> <<>>

\* C29 (table identifiers): no two Tables of one returned Document share an
\* id, whichever backend built it and after the local tables were merged;
\* also when a cloud TABLE block was dropped and when several pages each hold
\* several tables.
C29_TableIdsUnique ==
    \A i, j \in 1..Len(TablesOfCall) :
        TablesOfCall[i].id = TablesOfCall[j].id => i = j

\* two pages with two tables each, the second table of a page found after a
\* grid without rows: four tables in the merged Document
C29_Witness ==
    /\ LocalReturned
    /\ Len(backend_call.pages) = 2
    /\ \A n \in 1..2 : Len(backend_call.pages[n].pdfplumber_grids) = 3
    /\ Len(TablesOfCall) = 4
    /\ TablesOfCall[2].id = "table-p1-2"
    /\ TablesOfCall[3].id = "table-p2-0"

\* a cloud response whose first TABLE was dropped: the one Table left is table-1
C29_DroppedTableReached ==
    /\ TextractCall
    /\ Len(TableBlocksOf(backend_call.blocks)) = 2
    /\ Len(TablesOfCall) = 1
    /\ TablesOfCall[1].id = "table-1"

----------------------------------------------------------------------------
(* The "no processor available" Document *)

\* _initialize_processors with the except clause of the local processor: when
\* LocalProcessor() raises, the error is logged and local_processor stays None
\* although USE_LOCAL_FALLBACK is set
_initialize_processors_guarded(cfg, textract_init_ok, local_init_ok, PDFPLUMBER_AVAILABLE) ==
    LET self == _initialize_processors(cfg, textract_init_ok, PDFPLUMBER_AVAILABLE)
    IN [self EXCEPT !.local_processor = IF local_init_ok THEN @ ELSE None]

\* a selector after construction, the constructions in which LocalProcessor()
\* raised included
InitGuarded ==
    /\ config \in ProcessorConfig
    /\ \E textract_init_ok \in BOOLEAN, local_init_ok \in BOOLEAN, PDFPLUMBER_AVAILABLE \in BOOLEAN :
          LET self == _initialize_processors_guarded(config, textract_init_ok, local_init_ok,
                                                     PDFPLUMBER_AVAILABLE)
          IN /\ textract_processor = self.textract_processor
             /\ local_processor = self.local_processor
    /\ converter \in BOOLEAN
    /\ pc = "idle"
    /\ module = NoneStr
    /\ file_path = None
    /\ file_type = NoneStr
    /\ file_size = NoneInt
    /\ use_textract = FALSE
    /\ trace = <<>>
    /\ result = None
    /\ raised = NoneStr
    /\ backend_call = [kind |-> "idle"]
    /\ tasks = <<>>

SpecGuarded == InitGuarded /\ [][Next]_vars

\* the call has returned an error Document
ReturnedErrorDocument ==
    SelectorCall /\ pc = "done" /\ result # None /\ "error" \in DOMAIN result

\* the messages of the backend failures of the call
FailureMessages ==
    { trace[i].msg : i \in { j \in 1..Len(trace) : trace[j].event = "raise" } }

C30_NoProcessorOnlyWithoutBackendWhenBuilt ==
    (ReturnedErrorDocument /\ (config.USE_LOCAL_FALLBACK => local_processor # None))
    => /\ result.error = NoProcessorMessage => trace = <<>>
       /\ Failed("textract") =>
             /\ result.error # NoProcessorMessage
             /\ result.error \in FailureMessages

\* the cloud call failed, fallback is enabled, no local processor was built:
\* the Document says that no processor is available
C30_CloudFailureLost ==
    /\ ReturnedErrorDocument
    /\ config.USE_LOCAL_FALLBACK
    /\ local_processor = None
    /\ Failed("textract")
    /\ result.error = NoProcessorMessage

====
